---- MODULE Spec2Model ----
(***************************************************************************)
(* Model of arxiv_scraper/database/agent_pool_manager.py: AgentPoolManager *)
(* multiplexes a bounded number of backend connections over registered     *)
(* agents, with priority preemption at the global cap and a background     *)
(* idle sweep.  Caller threads run get_connection scopes, one at a time    *)
(* each; one worker thread runs the sweep.  Every `with self._lock` block  *)
(* is one action.  The backend calls connect() and close() may raise.      *)
(***************************************************************************)
EXTENDS Integers, Sequences, FiniteSets, TLC

(* ---------------------------------------------------------------- bounds *)
\* the model clock (time.time()) runs 0..MaxTime
MaxTime == 2
\* backend calls (close, connect) that raise in one run
MaxFaults == 1

(* ------------------------------------------------------------ the inputs *)
AgentIds == {"a1", "a2", "a3"}

\* the caller threads and the agent each of them works for
AgentOf == <<"a1", "a1", "a2", "a3", "a3">>
AllThreads == DOMAIN AgentOf
\* the callers of the pool life cycle, and those of the contention study
Threads == {1, 2, 3}
ContentionThreads == AllThreads

\* Optional[int]: <<>> is None, <<v>> is the integer v
NoneArg == <<>>
Some(v) == <<v>>

\* self._agent_configs
agent_configs ==
    [crawler      |-> [max_connections |-> 8,  priority |-> 2],
     scraper      |-> [max_connections |-> 10, priority |-> 3],
     downloader   |-> [max_connections |-> 5,  priority |-> 2],
     database     |-> [max_connections |-> 3,  priority |-> 4],
     nlp          |-> [max_connections |-> 4,  priority |-> 1],
     monitoring   |-> [max_connections |-> 2,  priority |-> 1],
     testing      |-> [max_connections |-> 2,  priority |-> 1],
     orchestrator |-> [max_connections |-> 3,  priority |-> 4]]

RegisterCall(a, type, max, prio) ==
    [agent_id |-> a, agent_type |-> type, max_connections |-> max, priority |-> prio]

\* the register_agent calls the callers make
RegisterCalls ==
    { RegisterCall("a1", "crawler", NoneArg, NoneArg),
      RegisterCall("a1", "crawler", Some(1), NoneArg),
      RegisterCall("a2", "database", NoneArg, NoneArg) }

\* the register_agent calls of the registration study: known and unknown agent
\* types, each optional argument left out, given as 0, or given as a positive
\* number that no type default equals
RegisterStudyCalls ==
    { RegisterCall(a, type, max, prio) :
        a \in {"a1", "a2"},
        type \in {"crawler", "scraper", "unknown"},
        max \in {NoneArg, Some(0), Some(2)},
        prio \in {NoneArg, Some(0), Some(5)} }

\* the values of total_max_connections in the contention study
ContentionCaps == {3, 4}

\* the contention study starts with three agents registered by these calls,
\* a3 by one of three; the third gives a3 a limit of one connection and a
\* priority above a1's
ContentionCalls ==
    { <<RegisterCall("a1", "crawler", NoneArg, NoneArg),
        RegisterCall("a2", "database", NoneArg, NoneArg), c3>> :
      c3 \in { RegisterCall("a3", "downloader", NoneArg, NoneArg),
               RegisterCall("a3", "nlp", NoneArg, NoneArg),
               RegisterCall("a3", "orchestrator", Some(1), NoneArg) } }

(* -------------------------------------------------------------- the state *)
VARIABLES
    total_max_connections, \* self.total_max_connections
    agents,              \* self._agents: agent_id -> AgentConnectionInfo
    agent_keys,          \* insertion order of the keys of self._agents
    connections,         \* self._connections: agent_id -> handles, oldest first
    active_connections,  \* self._active_connections
    shutdown_flag,       \* self._shutdown
    now,                 \* time.time()
    pc,                  \* per caller thread: position in get_connection
    conn,                \* per caller thread: the local connection_id
    worker,              \* position of _cleanup_worker
    sweep_time,          \* current_time of the running sweep
    faults,              \* backend calls that have raised
    ev,                  \* the failure the last step reported to its caller
    status               \* what the last get_pool_status returned

VARIABLES
    downloader,          \* the class whose batch runs: "agent" is
                         \* MCPEnhancedDownloaderAgent, "paper" is PDFDownloader
    batch,               \* pdf_urls / papers: the input list of the batch call
    max_concurrent,      \* the argument max_concurrent
    semaphore,           \* the value of asyncio.Semaphore(max_concurrent)
    task,                \* per item: position of its download_with_semaphore task
    result,              \* per item: what its task returned or raised
    returned,            \* what the batch call returned
    active_downloads,    \* MCPEnhancedDownloaderAgent.active_downloads
    download_history,    \* MCPEnhancedDownloaderAgent.download_history
    mcp_connected,       \* mcp_manager.is_server_connected("fetch")
    stats,               \* PDFDownloader.stats
    disk,                \* the store: path -> file, for the paths that exist
    report               \* what manage_storage returned

VARIABLES
    lock,                \* the thread that holds self._lock, or NoThread
    shutdown_pc,         \* position of the last shutdown() call
    clock,               \* time.time() as the rate limiter reads it
    delay,               \* RateLimiter.delay
    last_call_time,      \* RateLimiter.last_call_time
    wake_at,             \* per task: the time its asyncio.sleep is over
    fetch_at             \* per task: the time its wait() returned

limiter == <<clock, delay, last_call_time, wake_at, fetch_at>>

download == <<downloader, batch, max_concurrent, semaphore, task, result, returned,
              active_downloads, download_history, mcp_connected, stats, disk,
              report>>

vars == <<total_max_connections, agents, agent_keys, connections,
          active_connections, shutdown_flag, now, pc, conn, worker, sweep_time,
          faults, ev, status, downloader, batch, max_concurrent, semaphore, task,
          result, returned, active_downloads, download_history, mcp_connected,
          stats, disk, report, lock, shutdown_pc, clock, delay, last_call_time,
          wake_at, fetch_at>>

\* what the operations of AgentPoolManager other than get_pool_status and
\* shutdown leave alone
beyond_pool == <<status, download, lock, shutdown_pc, limiter>>

\* nobody holds the lock
NoThread == 0

\* no get_pool_status has returned
NoStatus == <<>>

pool == <<agents, agent_keys, connections, active_connections>>

\* self.connection_timeout
connection_timeout == 1

NoConn == <<>>
NoAgent == "-"

(* ---------------------------------------------------------------- helpers *)
\* python `x or default`: None and 0 are both falsy
PyOr(opt, default) == IF opt = NoneArg \/ opt = Some(0) THEN default ELSE opt[1]

\* type_config.get(key, default) with type_config = _agent_configs.get(agent_type, {})
TypeDefault(agent_type, key, default) ==
    IF agent_type \in DOMAIN agent_configs THEN agent_configs[agent_type][key] ELSE default

\* AgentConnectionInfo built by register_agent
NewAgentInfo(call, t) ==
    [agent_type       |-> call.agent_type,
     connection_count |-> 0,
     last_activity    |-> t,
     max_connections  |-> PyOr(call.max_connections,
                               TypeDefault(call.agent_type, "max_connections", 3)),
     priority         |-> PyOr(call.priority,
                               TypeDefault(call.agent_type, "priority", 1))]

\* remove one element of a sequence of distinct elements
SeqWithout(s, e) == SelectSeq(s, LAMBDA x : x # e)

Range(s) == {s[i] : i \in DOMAIN s}

AllHandles == UNION {Range(connections[a]) : a \in DOMAIN connections}

\* connection_id = f"{agent_id}_{thread ident}_{time.time()}"
ConnectionId(a, t, stamp) == <<a, t, stamp>>

\* The timestamps one thread reads for two scopes differ (a connect() lies
\* between them); the value stands only for that, so the model takes the least
\* stamp that no tracked id of the thread carries.
Stamp(a, t) ==
    CHOOSE n \in 0..MaxFaults :
        /\ ConnectionId(a, t, n) \notin AllHandles
        /\ \A m \in 0..(n - 1) : ConnectionId(a, t, m) \in AllHandles

(* ------------------------------------------------------------------ Init *)
Constructed(total_max) ==
    /\ total_max_connections = total_max
    /\ agents = <<>>
    /\ agent_keys = <<>>
    /\ connections = <<>>
    /\ active_connections = 0
    /\ shutdown_flag = FALSE
    /\ now = 0
    /\ pc = [t \in AllThreads |-> "idle"]
    /\ conn = [t \in AllThreads |-> NoConn]
    /\ worker = "sleeping"
    /\ sweep_time = 0
    /\ faults = 0
    /\ ev = "none"
    /\ status = NoStatus
    /\ lock = NoThread
    /\ shutdown_pc = "none"

\* no downloader is at work
NoResult == <<>>
NoReturn == <<>>
NoReport == <<>>
NoStats == [attempted |-> 0, successful |-> 0, failed |-> 0]

\* no wait() has returned, no sleep has begun
NoTime == <<>>

\* RateLimiter(delay=1.0) of a downloader whose rate limiter is not studied
NoLimiter ==
    /\ clock = 0
    /\ delay = 1
    /\ last_call_time = 0
    /\ wake_at = <<>>
    /\ fetch_at = <<>>

NoDownload ==
    /\ NoLimiter
    /\ downloader = "none"
    /\ batch = <<>>
    /\ max_concurrent = 0
    /\ semaphore = 0
    /\ task = <<>>
    /\ result = <<>>
    /\ returned = NoReturn
    /\ active_downloads = {}
    /\ download_history = <<>>
    /\ mcp_connected = FALSE
    /\ stats = NoStats
    /\ disk = <<>>
    /\ report = NoReport

\* AgentPoolManager(total_max_connections=2, connection_timeout_seconds=1)
Init == Constructed(2) /\ NoDownload

\* AgentPoolManager(total_max_connections=3 or 4, connection_timeout_seconds=1)
\* after three register_agent calls at time 0; no backend call raises later
InitContention ==
    \E calls \in ContentionCalls, total_max \in ContentionCaps :
        /\ total_max_connections = total_max
        /\ agent_keys = [i \in 1..3 |-> calls[i].agent_id]
        /\ agents = [a \in AgentIds |->
                        NewAgentInfo(CHOOSE c \in Range(calls) : c.agent_id = a, 0)]
        /\ connections = [a \in AgentIds |-> <<>>]
        /\ active_connections = 0
        /\ shutdown_flag = FALSE
        /\ now = 0
        /\ pc = [t \in AllThreads |-> "idle"]
        /\ conn = [t \in AllThreads |-> NoConn]
        /\ worker = "sleeping"
        /\ sweep_time = 0
        /\ faults = MaxFaults
        /\ ev = "none"
        /\ status = NoStatus
        /\ lock = NoThread
        /\ shutdown_pc = "none"
        /\ NoDownload

\* time passes
Tick ==
    /\ now < MaxTime
    /\ now' = now + 1
    /\ ev' = "none"
    /\ UNCHANGED beyond_pool
    /\ UNCHANGED <<total_max_connections, pool, shutdown_flag, pc, conn, worker,
                   sweep_time, faults>>

(* -------------------------------------------------------- register_agent *)
\* mutant: a second registration replaces the record
register_agent_Overwrite(call) ==
    LET a == call.agent_id IN
    /\ agents' = [x \in DOMAIN agents \cup {a} |->
                    IF x = a THEN NewAgentInfo(call, now) ELSE agents[x]]
    /\ agent_keys' = IF a \in DOMAIN agents THEN agent_keys ELSE Append(agent_keys, a)
    /\ connections' = [x \in DOMAIN connections \cup {a} |->
                         IF x = a THEN <<>> ELSE connections[x]]
    /\ ev' = IF a \in DOMAIN agents THEN "False" ELSE "none"
    /\ UNCHANGED beyond_pool
    /\ UNCHANGED <<total_max_connections, active_connections, shutdown_flag, now,
                   pc, conn, worker, sweep_time, faults>>

register_agent(call) ==
    LET a == call.agent_id IN
    /\ IF a \in DOMAIN agents
       THEN /\ ev' = "False"
            /\ UNCHANGED <<agents, agent_keys, connections>>
       ELSE /\ agents' = agents @@ (a :> NewAgentInfo(call, now))
            /\ agent_keys' = Append(agent_keys, a)
            /\ connections' = connections @@ (a :> <<>>)
            /\ ev' = "none"
    /\ UNCHANGED beyond_pool
    /\ UNCHANGED <<total_max_connections, active_connections, shutdown_flag, now,
                   pc, conn, worker, sweep_time, faults>>

(* ------------------------------------------- _try_free_connections_for_agent *)
\* mutant: an agent's last connection may be taken
IsCandidate_KeepNone(requesting_agent_id, agent_id) ==
    /\ agent_id # requesting_agent_id
    /\ agents[agent_id].priority < agents[requesting_agent_id].priority
    /\ agents[agent_id].connection_count > 0

\* mutant: an agent of any priority may be preempted
IsCandidate_AnyPriority(requesting_agent_id, agent_id) ==
    /\ agent_id # requesting_agent_id
    /\ agents[agent_id].connection_count > 1

\* the filter of the candidates loop
IsCandidate(requesting_agent_id, agent_id) ==
    /\ agent_id # requesting_agent_id
    /\ agents[agent_id].priority < agents[requesting_agent_id].priority
    /\ agents[agent_id].connection_count > 1

\* candidates, in the iteration order of self._agents.items()
Candidates(requesting_agent_id) ==
    SelectSeq(agent_keys, LAMBDA a : IsCandidate(requesting_agent_id, a))

\* mutant: the sort key is the priority alone
SortKeyLess_PriorityOnly(x, y) == agents[x].priority < agents[y].priority

\* key=lambda x: (x[1].priority, x[1].last_activity), compared as tuples
SortKeyLess(x, y) ==
    \/ agents[x].priority < agents[y].priority
    \/ /\ agents[x].priority = agents[y].priority
       /\ agents[x].last_activity < agents[y].last_activity

\* list.sort is stable: an element goes behind the elements that are not greater
RECURSIVE InsertSorted(_, _)
InsertSorted(s, x) ==
    IF s = <<>> THEN <<x>>
    ELSE IF SortKeyLess(x, Head(s)) THEN <<x>> \o s
    ELSE <<Head(s)>> \o InsertSorted(Tail(s), x)

RECURSIVE SortCandidates(_)
SortCandidates(s) ==
    IF s = <<>> THEN <<>>
    ELSE InsertSorted(SortCandidates(SubSeq(s, 1, Len(s) - 1)), s[Len(s)])

NoFree == [freed |-> FALSE, victim |-> NoAgent, conn_id |-> NoConn]

\* mutant: the newest connection of the victim is closed
TryFree_Newest(requesting_agent_id, close_ok) ==
    IF requesting_agent_id \notin DOMAIN agents THEN NoFree
    ELSE LET candidates == SortCandidates(Candidates(requesting_agent_id)) IN
         IF candidates = <<>> THEN NoFree
         ELSE LET agent_id == Head(candidates)
                  conns == IF agent_id \in DOMAIN connections
                           THEN connections[agent_id] ELSE <<>>
              IN IF conns = <<>> \/ ~close_ok THEN NoFree
                 ELSE [freed |-> TRUE, victim |-> agent_id, conn_id |-> conns[Len(conns)]]

\* what _try_free_connections_for_agent closes; freed is its return value.
\* close_ok: whether client.close() returns (TRUE) or raises (FALSE)
TryFree(requesting_agent_id, close_ok) ==
    IF requesting_agent_id \notin DOMAIN agents THEN NoFree
    ELSE LET candidates == SortCandidates(Candidates(requesting_agent_id)) IN
         IF candidates = <<>> THEN NoFree
         ELSE LET agent_id == Head(candidates)
                  conns == IF agent_id \in DOMAIN connections
                           THEN connections[agent_id] ELSE <<>>
              IN IF conns = <<>> \/ ~close_ok THEN NoFree
                 ELSE [freed |-> TRUE, victim |-> agent_id, conn_id |-> Head(conns)]

(* ------------------------------------------------- _can_create_connection *)
\* mutant: the limit test lets an agent that is at its limit pass
AtAgentLimit_Above(agent_id) ==
    agents[agent_id].connection_count > agents[agent_id].max_connections

\* mutant: at the global cap the agent's own limit is not looked at
AtAgentLimit_UnlessFull(agent_id) ==
    /\ agents[agent_id].connection_count >= agents[agent_id].max_connections
    /\ active_connections < total_max_connections

AtAgentLimit(agent_id) ==
    agents[agent_id].connection_count >= agents[agent_id].max_connections

AtGlobalLimit == active_connections >= total_max_connections

\* mutant: an agent that is not registered is let through when the pool has room
CanCreateConnection_Unchecked(agent_id, close_ok) ==
    IF agent_id \notin DOMAIN agents
    THEN [ok |-> ~AtGlobalLimit, free |-> NoFree]
    ELSE IF AtAgentLimit(agent_id) THEN [ok |-> FALSE, free |-> NoFree]
    ELSE IF AtGlobalLimit
         THEN LET f == TryFree(agent_id, close_ok) IN [ok |-> f.freed, free |-> f]
    ELSE [ok |-> TRUE, free |-> NoFree]

\* ok: the return value; free: the preemption it performed on the way
CanCreateConnection(agent_id, close_ok) ==
    IF agent_id \notin DOMAIN agents THEN [ok |-> FALSE, free |-> NoFree]
    ELSE IF AtAgentLimit(agent_id) THEN [ok |-> FALSE, free |-> NoFree]
    ELSE IF AtGlobalLimit
         THEN LET f == TryFree(agent_id, close_ok) IN [ok |-> f.freed, free |-> f]
    ELSE [ok |-> TRUE, free |-> NoFree]

(* --------------------------------------------------------- get_connection *)
\* lines 240-244: the registration test and the connection_id, outside the lock
get_connection_enter(t) ==
    LET a == AgentOf[t] IN
    /\ pc[t] = "idle"
    /\ IF a \notin DOMAIN agents
       THEN /\ ev' = "ValueError"
            /\ UNCHANGED <<pc, conn>>
       ELSE /\ pc' = [pc EXCEPT ![t] = "entered"]
            /\ conn' = [conn EXCEPT ![t] = ConnectionId(a, t, Stamp(a, t))]
            /\ ev' = "none"
    /\ UNCHANGED beyond_pool
    /\ UNCHANGED <<total_max_connections, pool, shutdown_flag, now, worker,
                   sweep_time, faults>>

\* the pool after the preemption f
AgentsAfterFree(f) ==
    IF f.freed THEN [agents EXCEPT ![f.victim].connection_count = @ - 1] ELSE agents

ConnectionsAfterFree(f) ==
    IF f.freed THEN [connections EXCEPT ![f.victim] = SeqWithout(@, f.conn_id)]
    ELSE connections

ActiveAfterFree(f) == IF f.freed THEN active_connections - 1 ELSE active_connections

\* whether the preemption of this call met a close() that raised
FreeRaised(agent_id, close_ok) ==
    /\ ~close_ok
    /\ CanCreateConnection(agent_id, TRUE).free.freed

\* lines 246-268: the locked block that decides, connects and tracks.
\* connect_ok: whether connector.connect() returns (TRUE) or raises (FALSE)
get_connection_acquire(t, close_ok, connect_ok) ==
    LET a == AgentOf[t]
        c == CanCreateConnection(a, close_ok)
    IN
    /\ pc[t] = "entered"
    /\ close_ok \/ FreeRaised(a, close_ok)
    /\ connect_ok \/ c.ok
    /\ LET raised == (IF close_ok THEN 0 ELSE 1) + (IF connect_ok THEN 0 ELSE 1) IN
       /\ faults + raised <= MaxFaults
       /\ faults' = faults + raised
    /\ IF ~c.ok
       THEN /\ ev' = "RuntimeError"
            /\ pc' = [pc EXCEPT ![t] = "idle"]
            /\ conn' = [conn EXCEPT ![t] = NoConn]
            /\ UNCHANGED pool
       ELSE IF ~connect_ok
       THEN /\ ev' = "ConnectionFailure"
            /\ pc' = [pc EXCEPT ![t] = "idle"]
            /\ conn' = [conn EXCEPT ![t] = NoConn]
            /\ agents' = AgentsAfterFree(c.free)
            /\ connections' = ConnectionsAfterFree(c.free)
            /\ active_connections' = ActiveAfterFree(c.free)
            /\ UNCHANGED agent_keys
       ELSE /\ ev' = "none"
            /\ pc' = [pc EXCEPT ![t] = "holding"]
            /\ agents' = [AgentsAfterFree(c.free) EXCEPT
                            ![a].connection_count = @ + 1,
                            ![a].last_activity = now]
            /\ connections' = [ConnectionsAfterFree(c.free) EXCEPT
                                 ![a] = Append(@, conn[t])]
            /\ active_connections' = ActiveAfterFree(c.free) + 1
            /\ UNCHANGED <<agent_keys, conn>>
    /\ UNCHANGED beyond_pool
    /\ UNCHANGED <<total_max_connections, shutdown_flag, now, worker, sweep_time>>

\* the test of the finally block
IsTracked(agent_id, connection_id) ==
    /\ agent_id \in DOMAIN connections
    /\ connection_id \in Range(connections[agent_id])

\* lines 271-290: the body ends, returning or raising (body_raises), and the
\* finally block releases the connection; close_ok as above
get_connection_release(t, body_raises, close_ok) ==
    LET a == AgentOf[t] IN
    /\ pc[t] = "holding"
    /\ close_ok \/ (IsTracked(a, conn[t]) /\ faults < MaxFaults)
    /\ faults' = IF close_ok THEN faults ELSE faults + 1
    /\ IF IsTracked(a, conn[t]) /\ close_ok
       THEN /\ connections' = [connections EXCEPT ![a] = SeqWithout(@, conn[t])]
            /\ agents' = [agents EXCEPT ![a].connection_count = @ - 1]
            /\ active_connections' = active_connections - 1
       ELSE UNCHANGED <<agents, connections, active_connections>>
    /\ ev' = IF body_raises THEN "BodyError" ELSE "none"
    /\ pc' = [pc EXCEPT ![t] = "idle"]
    /\ conn' = [conn EXCEPT ![t] = NoConn]
    /\ UNCHANGED beyond_pool
    /\ UNCHANGED <<total_max_connections, agent_keys, shutdown_flag, now, worker,
                   sweep_time>>

(* ------------------------------------- get_connection, one step per scope *)
\* mutant: the locked block of get_connection is entered without the lock
get_connection_lock_Unguarded(t) ==
    /\ pc[t] = "entered"
    /\ lock' = t
    /\ pc' = [pc EXCEPT ![t] = "locked"]
    /\ ev' = "none"
    /\ UNCHANGED <<status, download, shutdown_pc, limiter>>
    /\ UNCHANGED <<total_max_connections, pool, shutdown_flag, now, conn, worker,
                   sweep_time, faults>>

\* line 247: `with self._lock:` is entered
get_connection_lock(t) ==
    /\ pc[t] = "entered"
    /\ lock = NoThread
    /\ lock' = t
    /\ pc' = [pc EXCEPT ![t] = "locked"]
    /\ ev' = "none"
    /\ UNCHANGED <<status, download, shutdown_pc, limiter>>
    /\ UNCHANGED <<total_max_connections, pool, shutdown_flag, now, conn, worker,
                   sweep_time, faults>>

\* lines 248-257: _can_create_connection with its preemption, then either the
\* RuntimeError, which leaves the with block, or the connector is built
get_connection_decide(t, close_ok) ==
    LET a == AgentOf[t]
        c == CanCreateConnection(a, close_ok)
    IN
    /\ pc[t] = "locked"
    /\ close_ok \/ (FreeRaised(a, close_ok) /\ faults < MaxFaults)
    /\ faults' = IF close_ok THEN faults ELSE faults + 1
    /\ IF ~c.ok
       THEN /\ ev' = "RuntimeError"
            /\ pc' = [pc EXCEPT ![t] = "idle"]
            /\ conn' = [conn EXCEPT ![t] = NoConn]
            /\ lock' = NoThread
            /\ UNCHANGED pool
       ELSE /\ ev' = "none"
            /\ pc' = [pc EXCEPT ![t] = "connecting"]
            /\ agents' = AgentsAfterFree(c.free)
            /\ connections' = ConnectionsAfterFree(c.free)
            /\ active_connections' = ActiveAfterFree(c.free)
            /\ UNCHANGED <<agent_keys, conn, lock>>
    /\ UNCHANGED <<status, download, shutdown_pc, limiter>>
    /\ UNCHANGED <<total_max_connections, shutdown_flag, now, worker, sweep_time>>

\* lines 259-268: connector.connect() returns or raises (connect_ok), the
\* connection is tracked, and the with block is left
get_connection_connect(t, connect_ok) ==
    LET a == AgentOf[t] IN
    /\ pc[t] = "connecting"
    /\ connect_ok \/ faults < MaxFaults
    /\ faults' = IF connect_ok THEN faults ELSE faults + 1
    /\ IF ~connect_ok
       THEN /\ ev' = "ConnectionFailure"
            /\ pc' = [pc EXCEPT ![t] = "idle"]
            /\ conn' = [conn EXCEPT ![t] = NoConn]
            /\ UNCHANGED pool
       ELSE /\ ev' = "none"
            /\ pc' = [pc EXCEPT ![t] = "holding"]
            /\ agents' = [agents EXCEPT ![a].connection_count = @ + 1,
                                        ![a].last_activity = now]
            /\ connections' = [connections EXCEPT ![a] = Append(@, conn[t])]
            /\ active_connections' = active_connections + 1
            /\ UNCHANGED <<agent_keys, conn>>
    /\ lock' = NoThread
    /\ UNCHANGED <<status, download, shutdown_pc, limiter>>
    /\ UNCHANGED <<total_max_connections, shutdown_flag, now, worker, sweep_time>>

\* lines 271-284: the body ends (body_raises), the finally block takes the lock
\* and tests whether the connection is still tracked; if it is not, the with
\* block is left at once
get_connection_exit(t, body_raises) ==
    LET a == AgentOf[t] IN
    /\ pc[t] = "holding"
    /\ lock = NoThread
    /\ IF IsTracked(a, conn[t])
       THEN /\ lock' = t
            /\ pc' = [pc EXCEPT ![t] = "closing"]
            /\ ev' = "none"
            /\ UNCHANGED conn
       ELSE /\ lock' = NoThread
            /\ pc' = [pc EXCEPT ![t] = "idle"]
            /\ conn' = [conn EXCEPT ![t] = NoConn]
            /\ ev' = IF body_raises THEN "BodyError" ELSE "none"
    /\ UNCHANGED <<status, download, shutdown_pc, limiter>>
    /\ UNCHANGED <<total_max_connections, pool, shutdown_flag, now, worker,
                   sweep_time, faults>>

\* lines 284-290: client.close() returns or raises (close_ok), the connection
\* is untracked if it returned, and the with block is left
get_connection_closed(t, body_raises, close_ok) ==
    LET a == AgentOf[t] IN
    /\ pc[t] = "closing"
    /\ close_ok \/ faults < MaxFaults
    /\ faults' = IF close_ok THEN faults ELSE faults + 1
    /\ IF close_ok
       THEN /\ connections' = [connections EXCEPT ![a] = SeqWithout(@, conn[t])]
            /\ agents' = [agents EXCEPT ![a].connection_count = @ - 1]
            /\ active_connections' = active_connections - 1
       ELSE UNCHANGED <<agents, connections, active_connections>>
    /\ ev' = IF body_raises THEN "BodyError" ELSE "none"
    /\ pc' = [pc EXCEPT ![t] = "idle"]
    /\ conn' = [conn EXCEPT ![t] = NoConn]
    /\ lock' = NoThread
    /\ UNCHANGED <<status, download, shutdown_pc, limiter>>
    /\ UNCHANGED <<total_max_connections, agent_keys, shutdown_flag, now, worker,
                   sweep_time>>

(* ------------------------------------------------ _close_agent_connections *)
\* mutant: every handle of the agent is counted as closed
ClosedOf_All(agent_id, raising) ==
    IF agent_id \in DOMAIN connections
    THEN Range(connections[agent_id]) ELSE {}

\* the handles of agent_id whose close() returns, given the set whose close() raises
ClosedOf(agent_id, raising) ==
    IF agent_id \in DOMAIN connections
    THEN Range(connections[agent_id]) \ raising ELSE {}

\* the sets of handles whose close() may raise within the budget of faults
Raising(handles) == {r \in SUBSET handles : faults + Cardinality(r) <= MaxFaults}

(* ------------------------------------------------ _cleanup_idle_connections *)
\* mutant: an agent is reclaimed when it has been idle for exactly the timeout
IsIdle_AtTimeout(info, current_time) ==
    current_time - info.last_activity >= connection_timeout

\* the test of the sweep
IsIdle(info, current_time) == current_time - info.last_activity > connection_timeout

\* mutant: the sweep spares an agent that has a connection
IdleAgents_Unused(current_time) ==
    {a \in DOMAIN agents :
        IsIdle(agents[a], current_time) /\ agents[a].connection_count = 0}

IdleAgents(current_time) == {a \in DOMAIN agents : IsIdle(agents[a], current_time)}

\* _cleanup_worker wakes from sleep(cleanup_interval); the sweep reads the clock
\* before it takes the lock
cleanup_wake ==
    /\ worker = "sleeping"
    /\ worker' = "sweeping"
    /\ sweep_time' = now
    /\ ev' = "none"
    /\ UNCHANGED beyond_pool
    /\ UNCHANGED <<total_max_connections, pool, shutdown_flag, now, pc, conn, faults>>

\* mutant: a close() that raises ends the sweep and the worker
cleanup_idle_connections_Abort(raising) ==
    LET idle == IF raising = {} THEN IdleAgents(sweep_time) ELSE {}
        closed == UNION {ClosedOf(a, raising) : a \in idle}
    IN
    /\ worker = "sweeping"
    /\ agents' = [a \in DOMAIN agents \ idle |-> agents[a]]
    /\ agent_keys' = SelectSeq(agent_keys, LAMBDA a : a \notin idle)
    /\ connections' = [a \in DOMAIN connections \ idle |-> connections[a]]
    /\ active_connections' = active_connections - Cardinality(closed)
    /\ faults' = faults + Cardinality(raising)
    /\ worker' = IF shutdown_flag \/ raising # {} THEN "exited" ELSE "sleeping"
    /\ sweep_time' = 0
    /\ ev' = "none"
    /\ UNCHANGED beyond_pool
    /\ UNCHANGED <<total_max_connections, shutdown_flag, now, pc, conn>>

\* the locked loop of the sweep, then the loop test of _cleanup_worker
cleanup_idle_connections(raising) ==
    LET idle == IdleAgents(sweep_time)
        closed == UNION {ClosedOf(a, raising) : a \in idle}
    IN
    /\ worker = "sweeping"
    /\ agents' = [a \in DOMAIN agents \ idle |-> agents[a]]
    /\ agent_keys' = SelectSeq(agent_keys, LAMBDA a : a \notin idle)
    /\ connections' = [a \in DOMAIN connections \ idle |-> connections[a]]
    /\ active_connections' = active_connections - Cardinality(closed)
    /\ faults' = faults + Cardinality(raising)
    /\ worker' = IF shutdown_flag THEN "exited" ELSE "sleeping"
    /\ sweep_time' = 0
    /\ ev' = "none"
    /\ UNCHANGED beyond_pool
    /\ UNCHANGED <<total_max_connections, shutdown_flag, now, pc, conn>>

(* --------------------------------------------------------------- shutdown *)
\* mutant: shutdown counts the closed connections down, as the sweep does,
\* without the final reset of the counter
shutdown_NoReset(raising) ==
    /\ shutdown_flag' = TRUE
    /\ agents' = <<>>
    /\ agent_keys' = <<>>
    /\ connections' = <<>>
    /\ active_connections' = active_connections - Cardinality(AllHandles \ raising)
    /\ faults' = faults + Cardinality(raising)
    /\ ev' = "none"
    /\ shutdown_pc' = "joining"
    /\ UNCHANGED <<status, download, lock, limiter>>
    /\ UNCHANGED <<total_max_connections, now, pc, conn, worker, sweep_time>>

\* self._shutdown = True, then the locked block; the call goes on to join the
\* worker, which changes nothing of the pool
shutdown(raising) ==
    /\ shutdown_flag' = TRUE
    /\ agents' = <<>>
    /\ agent_keys' = <<>>
    /\ connections' = <<>>
    /\ active_connections' = 0
    /\ faults' = faults + Cardinality(raising)
    /\ ev' = "none"
    /\ shutdown_pc' = "joining"
    /\ UNCHANGED <<status, download, lock, limiter>>
    /\ UNCHANGED <<total_max_connections, now, pc, conn, worker, sweep_time>>

(* -------------------------------------------------------- get_pool_status *)
\* lines 328-331: shutdown() leaves join(timeout=5) and returns, either because
\* the worker has exited or because the timeout is over while the worker is
\* still in time.sleep(self.cleanup_interval)
shutdown_join ==
    /\ shutdown_pc = "joining"
    /\ worker \in {"sleeping", "exited"}
    /\ shutdown_pc' = "returned"
    /\ ev' = "none"
    /\ UNCHANGED <<status, download, lock, limiter>>
    /\ UNCHANGED <<total_max_connections, pool, shutdown_flag, now, pc, conn, worker,
                   sweep_time, faults>>

\* the snapshot built under the lock.  Of each agent's entry it keeps
\* "connections"; "type", "max_connections", "priority", "last_activity" and
\* "idle_time" are copies of the record and of the clock.
PoolStatus ==
    [total_connections |-> active_connections,
     max_connections   |-> total_max_connections,
     registered_agents |-> Len(agent_keys),
     agents            |-> [a \in DOMAIN agents |->
                               [connections |-> agents[a].connection_count]]]

get_pool_status ==
    /\ status' = PoolStatus
    /\ ev' = "none"
    /\ UNCHANGED <<download, lock, shutdown_pc, limiter>>
    /\ UNCHANGED <<total_max_connections, pool, shutdown_flag, now, pc, conn, worker,
                   sweep_time, faults>>

(* ------------------------------------------------------------------- Next *)
Next ==
    \/ Tick
    \/ \E call \in RegisterCalls : register_agent(call)
    \/ \E t \in Threads : get_connection_enter(t)
    \/ \E t \in Threads, close_ok \in BOOLEAN, connect_ok \in BOOLEAN :
          get_connection_acquire(t, close_ok, connect_ok)
    \/ \E t \in Threads, body_raises \in BOOLEAN, close_ok \in BOOLEAN :
          get_connection_release(t, body_raises, close_ok)
    \/ cleanup_wake
    \/ \E raising \in Raising(UNION {Range(connections[a]) : a \in IdleAgents(sweep_time)}) :
          cleanup_idle_connections(raising)
    \/ \E raising \in Raising(AllHandles) : shutdown(raising)

Spec == Init /\ [][Next]_vars

\* five callers contend for three or four connections; no sweep and no shutdown
\* runs
NextContention ==
    \/ Tick
    \/ \E t \in ContentionThreads : get_connection_enter(t)
    \/ \E t \in ContentionThreads, close_ok \in BOOLEAN, connect_ok \in BOOLEAN :
          get_connection_acquire(t, close_ok, connect_ok)
    \/ \E t \in ContentionThreads, body_raises \in BOOLEAN, close_ok \in BOOLEAN :
          get_connection_release(t, body_raises, close_ok)

SpecContention == InitContention /\ [][NextContention]_vars

\* the callers thread by thread, scope by scope; register_agent and the sweep
\* are each one locked block and wait until the lock is free
NextLock ==
    \/ Tick
    \/ \E call \in RegisterCalls : lock = NoThread /\ register_agent(call)
    \/ \E t \in Threads : get_connection_enter(t)
    \/ \E t \in Threads : get_connection_lock(t)
    \/ \E t \in Threads, close_ok \in BOOLEAN : get_connection_decide(t, close_ok)
    \/ \E t \in Threads, connect_ok \in BOOLEAN : get_connection_connect(t, connect_ok)
    \/ \E t \in Threads, body_raises \in BOOLEAN : get_connection_exit(t, body_raises)
    \/ \E t \in Threads, body_raises \in BOOLEAN, close_ok \in BOOLEAN :
          get_connection_closed(t, body_raises, close_ok)
    \/ cleanup_wake
    \/ \E raising \in Raising(UNION {Range(connections[a]) : a \in IdleAgents(sweep_time)}) :
          lock = NoThread /\ cleanup_idle_connections(raising)

SpecLock == Init /\ [][NextLock]_vars

\* registrations, the worker and shutdown() with its join
NextShutdown ==
    \/ Tick
    \/ \E call \in RegisterCalls : register_agent(call)
    \/ cleanup_wake
    \/ \E raising \in Raising(UNION {Range(connections[a]) : a \in IdleAgents(sweep_time)}) :
          cleanup_idle_connections(raising)
    \/ \E raising \in Raising(AllHandles) : shutdown(raising)
    \/ shutdown_join

SpecShutdown == Init /\ [][NextShutdown]_vars

(* ============================================================== downloads *)
(* Model of arxiv_scraper/downloader_agent.py (MCPEnhancedDownloaderAgent) and  *)
(* of arxiv_scraper/scraper/pdf_downloader.py (StorageManager, PDFDownloader).  *)
(* Both run on one asyncio event loop: a task runs without interruption from    *)
(* one suspending await to the next, and each such stretch is one action.       *)

\* the urls of the items: u1 is http://a/pdf/1.pdf, u2 is http://a/pdf/2.pdf
\* and u3 is http://b/pdf/1.pdf, the same document on another host.  A paper's
\* paper_id is named like its pdf_url.
Urls == {"u1", "u2", "u3"}

\* url.split('/')[-1]
LastSegment(url) == IF url = "u2" THEN "2.pdf" ELSE "1.pdf"

\* _generate_local_path(url) without a paper_id, as download_batch calls it: the
\* last segment names the file when it ends with .pdf, as it does in every url
\* of the model.  get_paper_file_path(paper_id, source) names the file by the
\* paper_id.
PathOf(url) == IF LastSegment(url) = "1.pdf" THEN "p1" ELSE "p2"

\* an item of the input list.  download_batch reads only url; complete tells
\* whether the paper dictionary has the keys download_paper reads
Item(url, complete, pdf_downloaded) ==
    [url |-> url, complete |-> complete, pdf_downloaded |-> pdf_downloaded,
     pdf_file_path |-> NoneArg, pdf_file_size |-> NoneArg]

\* a file: its byte size, its first bytes, and the md5 of its bytes
File(size, header, digest) == [size |-> size, header |-> header, digest |-> digest]

\* the bodies a server sends: a PDF, a PDF below the minimal size, a page that
\* is no PDF
GoodPdf  == File(1500, "%PDF-", 1)
SmallPdf == File(400, "%PDF-", 2)
Junk     == File(1500, "<html", 3)
Bodies == {GoodPdf, SmallPdf, Junk}

\* what is on disk when the transfer of body breaks half way
Truncated(body) == File(body.size \div 2, body.header, 10 + body.digest)

\* a file that fills the store to n bytes
Archive(n) == File(n, "%PDF-", 9)

\* what the transport does with a request.  kind: "ok" is status 200 with the
\* whole body, "broken" is status 200 with a transfer that raises half way,
\* "http_error" is another status, "timeout" raises before any byte arrives;
\* length is the Content-Length header
Response(kind, body, length) == [kind |-> kind, body |-> body, length |-> length]

Responses ==
    UNION { {Response("ok", b, NoneArg), Response("ok", b, Some(b.size))} :
            b \in Bodies }
        \cup { Response("broken", GoodPdf, Some(GoodPdf.size)),
               Response("broken", File(2400, "%PDF-", 4), Some(2400)),
               Response("http_error", GoodPdf, NoneArg),
               Response("timeout", GoodPdf, NoneArg) }

\* PDFs should be at least 1KB (_validate_pdf_file, download_paper)
MinPdfSize == 1000

\* MCPEnhancedDownloaderAgent.storage_limit_gb and
\* StorageManager.max_storage_bytes, in bytes at the scale of the model's files
storage_limit == 4000
max_storage_bytes == 4000

RECURSIVE Usage(_)
\* get_storage_stats / get_current_storage_usage: the sum of the file sizes
Usage(d) ==
    IF DOMAIN d = {} THEN 0
    ELSE LET p == CHOOSE x \in DOMAIN d : TRUE IN
         d[p].size + Usage([x \in DOMAIN d \ {p} |-> d[x]])

\* the store with file f written at path p, and with path p removed
Written(d, p, f) == [x \in DOMAIN d \cup {p} |-> IF x = p THEN f ELSE d[x]]
Unlinked(d, p) == [x \in DOMAIN d \ {p} |-> d[x]]

\* the input lists, the stores and the bounds of the download study
MaxConcurrent == 2

AgentBatches ==
    { <<Item("u1", TRUE, FALSE)>>,
      <<Item("u1", TRUE, FALSE), Item("u2", TRUE, FALSE)>>,
      <<Item("u1", TRUE, FALSE), Item("u3", TRUE, FALSE)>>,
      <<Item("u1", TRUE, FALSE), Item("u1", TRUE, FALSE), Item("u2", TRUE, FALSE)>> }

PaperBatches ==
    { <<Item("u1", TRUE, FALSE), Item("u2", TRUE, TRUE)>>,
      <<Item("u1", TRUE, FALSE), Item("u1", TRUE, FALSE), Item("u2", TRUE, FALSE)>>,
      <<Item("u1", TRUE, FALSE), Item("u2", FALSE, FALSE), Item("u2", TRUE, FALSE)>> }

InitialStores ==
    { <<>>,
      Written(<<>>, "p1", GoodPdf),
      Written(<<>>, "p1", SmallPdf),
      Written(<<>>, "p3", Archive(3000)),
      Written(Written(<<>>, "p1", GoodPdf), "p3", Archive(3000)) }

\* a downloader, constructed over a store, at the call of its batch method
InitDownload ==
    /\ Constructed(2)
    /\ downloader \in {"agent", "paper"}
    /\ batch \in (IF downloader = "agent" THEN AgentBatches ELSE PaperBatches)
    /\ max_concurrent \in 1..MaxConcurrent
    /\ semaphore = max_concurrent
    /\ task = [i \in DOMAIN batch |-> "pending"]
    /\ result = [i \in DOMAIN batch |-> NoResult]
    /\ returned = NoReturn
    /\ active_downloads = {}
    /\ download_history = <<>>
    /\ mcp_connected \in (IF downloader = "agent" THEN BOOLEAN ELSE {FALSE})
    /\ stats = NoStats
    /\ disk \in InitialStores
    /\ report = NoReport
    /\ NoLimiter

\* what the download operations leave alone
beyond_download ==
    <<total_max_connections, agents, agent_keys, connections, active_connections,
      shutdown_flag, now, pc, conn, worker, sweep_time, faults, ev, status, lock,
      shutdown_pc, limiter>>

\* mutant: the semaphore admits every task
SemaphoreFree_Always == TRUE

\* asyncio.Semaphore.acquire returns without waiting
SemaphoreFree == semaphore > 0

(* ------------------------------------------- MCPEnhancedDownloaderAgent *)
DownloadResult(url, local_path, success, file_size, checksum, error_message) ==
    [url |-> url, local_path |-> local_path, success |-> success,
     file_size |-> file_size, checksum |-> checksum, error_message |-> error_message]

\* mutant: a failed result keeps the local path
Failure_WithPath(url, error_message) ==
    DownloadResult(url, Some(PathOf(url)), FALSE, 0, NoneArg, Some(error_message))

Failure(url, error_message) ==
    DownloadResult(url, NoneArg, FALSE, 0, NoneArg, Some(error_message))

Success(url, path, file) ==
    DownloadResult(url, Some(path), TRUE, file.size, Some(file.digest), NoneArg)

\* an exception that asyncio.gather(return_exceptions=True) put in the place of
\* a task's result
Raised(exception) == [raised |-> exception]

IsRaised(r) == "raised" \in DOMAIN r

\* _check_storage_capacity: usage_percentage < 95.0
CheckStorageCapacity == Usage(disk) * 100 < 95 * storage_limit

\* mutant: download_pdf without the test of the active set
IsActive_Never(url) == FALSE

\* line 84
IsActive(url) == url \in active_downloads

\* download_batch line 163 and download_pdf lines 84-105: the task gets the
\* semaphore and runs, without a suspension, to rate_limiter.wait().
\* stat_raises: whether get_storage_stats raises (a stat() that fails)
download_pdf_begin(i, stat_raises) ==
    LET url == batch[i].url IN
    /\ downloader = "agent"
    /\ task[i] = "pending"
    /\ SemaphoreFree
    /\ stat_raises => ~IsActive(url)
    /\ IF IsActive(url)
       THEN /\ result' = [result EXCEPT ![i] = Failure(url, "Download already in progress")]
            /\ task' = [task EXCEPT ![i] = "done"]
            /\ UNCHANGED <<semaphore, active_downloads>>
       ELSE IF stat_raises
       THEN /\ result' = [result EXCEPT ![i] = Raised("OSError")]
            /\ task' = [task EXCEPT ![i] = "done"]
            /\ UNCHANGED <<semaphore, active_downloads>>
       ELSE IF ~CheckStorageCapacity
       THEN /\ result' = [result EXCEPT ![i] = Failure(url, "Storage limit exceeded")]
            /\ task' = [task EXCEPT ![i] = "done"]
            /\ UNCHANGED <<semaphore, active_downloads>>
       ELSE /\ active_downloads' = active_downloads \cup {url}
            /\ task' = [task EXCEPT ![i] = "rate_wait"]
            /\ semaphore' = semaphore - 1
            /\ UNCHANGED result
    /\ UNCHANGED <<downloader, batch, max_concurrent, returned, download_history,
                   mcp_connected, stats, disk, report>>
    /\ UNCHANGED beyond_download

\* line 111
TargetExists(path) == path \in DOMAIN disk

\* mutant: the skip of an existing file returns without the finally block
download_pdf_resume_NoDiscard(i) ==
    LET url == batch[i].url
        path == PathOf(url)
    IN
    /\ downloader = "agent"
    /\ task[i] = "rate_wait"
    /\ IF path \in DOMAIN disk
       THEN /\ result' = [result EXCEPT ![i] = Success(url, path, disk[path])]
            /\ task' = [task EXCEPT ![i] = "done"]
            /\ semaphore' = semaphore + 1
            /\ UNCHANGED active_downloads
       ELSE /\ task' = [task EXCEPT ![i] = "fetching"]
            /\ UNCHANGED <<result, active_downloads, semaphore>>
    /\ UNCHANGED <<downloader, batch, max_concurrent, returned, download_history,
                   mcp_connected, stats, disk, report>>
    /\ UNCHANGED beyond_download

\* download_pdf lines 107-127 after rate_limiter.wait(): the skip of an existing
\* file, with the finally block and the release of the semaphore, or the start
\* of the transport
download_pdf_resume(i) ==
    LET url == batch[i].url
        path == PathOf(url)
    IN
    /\ downloader = "agent"
    /\ task[i] = "rate_wait"
    /\ IF TargetExists(path)
       THEN /\ result' = [result EXCEPT ![i] = Success(url, path, disk[path])]
            /\ task' = [task EXCEPT ![i] = "done"]
            /\ active_downloads' = active_downloads \ {url}
            /\ semaphore' = semaphore + 1
       ELSE /\ task' = [task EXCEPT ![i] = "fetching"]
            /\ UNCHANGED <<result, active_downloads, semaphore>>
    /\ UNCHANGED <<downloader, batch, max_concurrent, returned, download_history,
                   mcp_connected, stats, disk, report>>
    /\ UNCHANGED beyond_download

\* _download_with_mcp and _download_fallback: the store and the result after
\* the transport answered.  Neither looks at what was written.
FetchOutcome(url, path, resp) ==
    CASE resp.kind = "ok" ->
            [disk |-> Written(disk, path, resp.body),
             result |-> Success(url, path, resp.body)]
      [] resp.kind = "broken" ->
            [disk |-> Written(disk, path, Truncated(resp.body)),
             result |-> Failure(url, "download failed")]
      [] resp.kind = "http_error" ->
            [disk |-> disk, result |-> Failure(url, "HTTP error")]
      [] OTHER ->
            [disk |-> disk, result |-> Failure(url, "download failed")]

\* download_pdf lines 123-149: the transport answers, the result is recorded,
\* the finally block discards the url, the semaphore is released
download_pdf_fetched(i, resp) ==
    LET url == batch[i].url
        o == FetchOutcome(url, PathOf(url), resp)
    IN
    /\ downloader = "agent"
    /\ task[i] = "fetching"
    /\ disk' = o.disk
    /\ result' = [result EXCEPT ![i] = o.result]
    /\ download_history' = Append(download_history, o.result)
    /\ task' = [task EXCEPT ![i] = "done"]
    /\ active_downloads' = active_downloads \ {url}
    /\ semaphore' = semaphore + 1
    /\ UNCHANGED <<downloader, batch, max_concurrent, returned, mcp_connected, stats,
                   report>>
    /\ UNCHANGED beyond_download

AllDone == \A i \in DOMAIN task : task[i] = "done"

\* mutant: the exceptions are filtered out of the results
download_batch_return_Filtered ==
    /\ downloader = "agent"
    /\ AllDone
    /\ returned = NoReturn
    /\ returned' = SelectSeq(result, LAMBDA r : ~IsRaised(r))
    /\ UNCHANGED <<downloader, batch, max_concurrent, semaphore, task, result,
                   active_downloads, download_history, mcp_connected, stats, disk,
                   report>>
    /\ UNCHANGED beyond_download

\* download_batch lines 169-187: gather has every result; exceptions become
\* failed results
download_batch_return ==
    /\ downloader = "agent"
    /\ AllDone
    /\ returned = NoReturn
    /\ returned' = [i \in DOMAIN batch |->
                       IF IsRaised(result[i])
                       THEN Failure(batch[i].url, result[i].raised)
                       ELSE result[i]]
    /\ UNCHANGED <<downloader, batch, max_concurrent, semaphore, task, result,
                   active_downloads, download_history, mcp_connected, stats, disk,
                   report>>
    /\ UNCHANGED beyond_download

(* --------------------------------------------------------- PDFDownloader *)
\* StorageManager.can_store_file on the store d
CanStoreFile(d, file_size) == Usage(d) + file_size <= max_storage_bytes

\* mutant: the update sets the flag only
Downloaded_FlagOnly(paper, path, file_size) ==
    [paper EXCEPT !.pdf_downloaded = TRUE]

\* paper_data.update(...) of download_paper
Downloaded(paper, path, file_size) ==
    [paper EXCEPT !.pdf_downloaded = TRUE,
                  !.pdf_file_path = Some(path),
                  !.pdf_file_size = Some(file_size)]

\* download_paper lines 204-206
\* mutant: the existing file is accepted only if it is a whole body
IsOnDisk_Whole(path) ==
    /\ path \in DOMAIN disk
    /\ disk[path].size > MinPdfSize
    /\ disk[path].digest < 10

IsOnDisk(path) == path \in DOMAIN disk /\ disk[path].size > MinPdfSize

\* download_papers_batch line 364 and download_paper lines 188-216 with
\* _download_file line 250: the task gets the semaphore and runs to
\* rate_limiter.wait()
download_paper_begin(i) ==
    LET paper == batch[i]
        path == PathOf(paper.url)
    IN
    /\ downloader = "paper"
    /\ task[i] = "pending"
    /\ SemaphoreFree
    /\ IF ~paper.complete
       THEN /\ result' = [result EXCEPT ![i] = Raised("KeyError")]
            /\ task' = [task EXCEPT ![i] = "done"]
            /\ UNCHANGED <<semaphore, stats>>
       ELSE /\ stats' = [stats EXCEPT !.attempted = @ + 1]
            /\ IF paper.pdf_downloaded
               THEN /\ result' = [result EXCEPT ![i] = paper]
                    /\ task' = [task EXCEPT ![i] = "done"]
                    /\ UNCHANGED semaphore
               ELSE IF IsOnDisk(path)
               THEN /\ result' = [result EXCEPT ![i] =
                                     Downloaded(paper, path, disk[path].size)]
                    /\ task' = [task EXCEPT ![i] = "done"]
                    /\ UNCHANGED semaphore
               ELSE /\ task' = [task EXCEPT ![i] = "rate_wait"]
                    /\ semaphore' = semaphore - 1
                    /\ UNCHANGED result
    /\ UNCHANGED <<downloader, batch, max_concurrent, returned, active_downloads,
                   download_history, mcp_connected, disk, report>>
    /\ UNCHANGED beyond_download

\* _download_file line 253: the request is sent
download_paper_request(i) ==
    /\ downloader = "paper"
    /\ task[i] = "rate_wait"
    /\ task' = [task EXCEPT ![i] = "fetching"]
    /\ UNCHANGED <<downloader, batch, max_concurrent, semaphore, result, returned,
                   active_downloads, download_history, mcp_connected, stats, disk,
                   report>>
    /\ UNCHANGED beyond_download

\* _download_file lines 267-275: the test before the file is opened
Rejected(resp) ==
    /\ resp.length # NoneArg
    /\ resp.length # Some(0)
    /\ ~CanStoreFile(disk, resp.length[1])

\* _validate_pdf_file
ValidatePdfFile(file) == file.size >= MinPdfSize /\ file.header = "%PDF-"

\* _download_file lines 253-320: the store and the outcome after the response.
\* The body is written in one step; the test of the ceiling after each chunk
\* is the test after the last one.
DownloadFile(path, resp) ==
    CASE resp.kind \in {"timeout", "http_error"} ->
            [disk |-> disk, success |-> FALSE]
      [] Rejected(resp) ->
            [disk |-> disk, success |-> FALSE]
      [] resp.kind = "broken" ->
            [disk |-> Written(disk, path, Truncated(resp.body)), success |-> FALSE]
      [] resp.body.size > 0 /\ ~CanStoreFile(Written(disk, path, resp.body), 0) ->
            [disk |-> Unlinked(disk, path), success |-> FALSE]
      [] ~ValidatePdfFile(resp.body) ->
            [disk |-> Unlinked(disk, path), success |-> FALSE]
      [] OTHER ->
            [disk |-> Written(disk, path, resp.body), success |-> TRUE]

\* _download_file lines 253-320 and download_paper lines 218-235: the response
\* is handled, the paper and the statistics updated, the semaphore released
download_paper_respond(i, resp) ==
    LET paper == batch[i]
        path == PathOf(paper.url)
        o == DownloadFile(path, resp)
    IN
    /\ downloader = "paper"
    /\ task[i] = "fetching"
    /\ disk' = o.disk
    /\ result' = [result EXCEPT ![i] =
                     IF o.success THEN Downloaded(paper, path, resp.body.size)
                     ELSE paper]
    /\ stats' = IF o.success THEN [stats EXCEPT !.successful = @ + 1]
                ELSE [stats EXCEPT !.failed = @ + 1]
    /\ task' = [task EXCEPT ![i] = "done"]
    /\ semaphore' = semaphore + 1
    /\ UNCHANGED <<downloader, batch, max_concurrent, returned, active_downloads,
                   download_history, mcp_connected, report>>
    /\ UNCHANGED beyond_download

\* download_papers_batch lines 371-383: an exception gives back the input paper
download_papers_batch_return ==
    /\ downloader = "paper"
    /\ AllDone
    /\ returned = NoReturn
    /\ returned' = [i \in DOMAIN batch |->
                       IF IsRaised(result[i]) THEN batch[i] ELSE result[i]]
    /\ UNCHANGED <<downloader, batch, max_concurrent, semaphore, task, result,
                   active_downloads, download_history, mcp_connected, stats, disk,
                   report>>
    /\ UNCHANGED beyond_download

\* the caller hands the papers a batch returned to download_papers_batch of
\* the same PDFDownloader again, as long as the last batch changed one of them
download_papers_batch_again ==
    /\ downloader = "paper"
    /\ returned # NoReturn
    /\ returned # batch
    /\ batch' = returned
    /\ semaphore' = max_concurrent
    /\ task' = [i \in DOMAIN batch |-> "pending"]
    /\ result' = [i \in DOMAIN batch |-> NoResult]
    /\ returned' = NoReturn
    /\ UNCHANGED <<downloader, max_concurrent, active_downloads, download_history,
                   mcp_connected, stats, disk, report>>
    /\ UNCHANGED beyond_download

NextDownload ==
    \/ \E i \in DOMAIN batch, stat_raises \in BOOLEAN : download_pdf_begin(i, stat_raises)
    \/ \E i \in DOMAIN batch : download_pdf_resume(i)
    \/ \E i \in DOMAIN batch, resp \in Responses : download_pdf_fetched(i, resp)
    \/ download_batch_return
    \/ \E i \in DOMAIN batch : download_paper_begin(i)
    \/ \E i \in DOMAIN batch : download_paper_request(i)
    \/ \E i \in DOMAIN batch, resp \in Responses : download_paper_respond(i, resp)
    \/ download_papers_batch_return
    \/ download_papers_batch_again

SpecDownload == InitDownload /\ [][NextDownload]_vars

\* the event loop runs every task that is ready, and every transport answers
\* or times out
SpecDownloadFair == SpecDownload /\ WF_vars(NextDownload)

(* ------------------------------------------------------- manage_storage *)
\* a stored PDF with its modification time; unlink raises for a file that is
\* not removable
Stored(size, digest, mtime, removable) ==
    [size |-> size, header |-> "%PDF-", digest |-> digest, mtime |-> mtime,
     removable |-> removable]

\* freed_space / (1024**3)
GiB == 1073741824

\* _find_old_files(percentage=0.1), in percent
OldestPercent == 10

\* cleanup_threshold * 100
CleanupThresholds == {5, 25, 50, 95}

\* the stores of the cleanup study: paths 1..n in the order rglob lists them;
\* files of one checksum are copies and have one size
FileCounts == {3, 10, 11, 20}

DigestOf(pattern, i) ==
    CASE pattern = "distinct" -> i
      [] pattern = "pairs" -> (i + 1) \div 2
      [] pattern = "triple" -> IF i <= 3 THEN 1 ELSE i
      [] pattern = "copies" -> 1

MtimeOf(pattern, n, i) ==
    CASE pattern = "oldest_first" -> i
      [] pattern = "newest_first" -> n + 1 - i
      [] pattern = "equal" -> 0
      [] pattern = "mixed" -> (i * 7) % n

SizeOf(pattern, digest) ==
    CASE pattern = "uniform" -> 200
      [] pattern = "varied" -> 100 + 100 * (digest % 3)

CleanupStores ==
    { [i \in 1..n |-> Stored(SizeOf(z, DigestOf(c, i)), DigestOf(c, i),
                             MtimeOf(t, n, i), i # locked)] :
        n \in FileCounts,
        c \in {"distinct", "pairs", "triple", "copies"},
        t \in {"oldest_first", "newest_first", "equal", "mixed"},
        z \in {"uniform", "varied"},
        locked \in {0, 1, 2} }

InitStorage ==
    /\ Constructed(2)
    /\ downloader = "storage"
    /\ batch = <<>>
    /\ max_concurrent = 0
    /\ semaphore = 0
    /\ task = <<>>
    /\ result = <<>>
    /\ returned = NoReturn
    /\ active_downloads = {}
    /\ download_history = <<>>
    /\ mcp_connected = FALSE
    /\ stats = NoStats
    /\ disk \in CleanupStores
    /\ report = NoReport
    /\ NoLimiter

\* StorageStats.usage_percentage, a fraction of storage_limit
UsagePercentage(d) == <<Usage(d) * 100, storage_limit>>

\* stats.usage_percentage < cleanup_threshold * 100
BelowThreshold(d, threshold) == Usage(d) * 100 < threshold * storage_limit

RECURSIVE Ascending(_)
\* the paths of S in the order rglob lists them
Ascending(S) ==
    IF S = {} THEN <<>>
    ELSE LET p == CHOOSE x \in S : \A y \in S : x <= y IN
         <<p>> \o Ascending(S \ {p})

\* the files of d with the checksum of file p
ChecksumGroup(d, p) == {q \in DOMAIN d : d[q].digest = d[p].digest}

\* _find_duplicate_files: the groups of more than one file, each in listing
\* order, the groups in the order of their first file
FindDuplicateFiles(d) ==
    LET firsts == {p \in DOMAIN d :
                      /\ Cardinality(ChecksumGroup(d, p)) > 1
                      /\ \A q \in ChecksumGroup(d, p) : p <= q}
        order == Ascending(firsts)
    IN  [i \in 1..Len(order) |-> Ascending(ChecksumGroup(d, order[i]))]

\* mutant: the sort puts the newest file first
Older_NewestFirst(d, q, p) ==
    \/ d[q].mtime > d[p].mtime
    \/ d[q].mtime = d[p].mtime /\ q < p

\* file q is listed before file p in the sort by modification time (the sort
\* is stable)
Older(d, q, p) ==
    \/ d[q].mtime < d[p].mtime
    \/ d[q].mtime = d[p].mtime /\ q < p

\* _find_old_files: the first int(len * percentage) files by modification time
FindOldFiles(d, percent) ==
    LET count == (Cardinality(DOMAIN d) * percent) \div 100 IN
    [i \in 1..count |->
        CHOOSE p \in DOMAIN d : Cardinality({q \in DOMAIN d : Older(d, q, p)}) = i - 1]

\* mutant: the whole group is removed
Redundant_All(dup_group) == dup_group

\* dup_group[1:]
Redundant(dup_group) == Tail(dup_group)

RECURSIVE Flatten(_)
\* the files the duplicate loop visits, in its order
Flatten(duplicates) ==
    IF duplicates = <<>> THEN <<>>
    ELSE Redundant(Head(duplicates)) \o Flatten(Tail(duplicates))

\* what a removal loop has done so far
Cleaned(d, removed, freed_space) ==
    [disk |-> d, removed |-> removed, freed_space |-> freed_space]

RECURSIVE RemoveDuplicates(_, _)
\* manage_storage lines 220-230 over the files still to visit
RemoveDuplicates(c, files) ==
    IF files = <<>> THEN c
    ELSE LET p == Head(files) IN
         IF p \notin DOMAIN c.disk \/ ~c.disk[p].removable
         THEN RemoveDuplicates(c, Tail(files))
         ELSE RemoveDuplicates(Cleaned(Unlinked(c.disk, p), c.removed + 1,
                                       c.freed_space + c.disk[p].size),
                               Tail(files))

RECURSIVE RemoveOldFiles(_, _, _)
\* manage_storage lines 237-251 over the old files still to visit
RemoveOldFiles(c, files, threshold) ==
    IF files = <<>> THEN c
    ELSE LET p == Head(files) IN
         IF p \notin DOMAIN c.disk \/ ~c.disk[p].removable
         THEN RemoveOldFiles(c, Tail(files), threshold)
         ELSE LET n == Cleaned(Unlinked(c.disk, p), c.removed + 1,
                               c.freed_space + c.disk[p].size)
              IN  IF BelowThreshold(n.disk, threshold) THEN n
                  ELSE RemoveOldFiles(n, Tail(files), threshold)

\* manage_storage(cleanup_threshold)
manage_storage(threshold) ==
    /\ downloader = "storage"
    /\ report = NoReport
    /\ IF BelowThreshold(disk, threshold)
       THEN /\ report' = [cleanup_needed |-> FALSE,
                          current_usage |-> UsagePercentage(disk),
                          threshold |-> threshold]
            /\ disk' = disk
       ELSE LET duplicates == FindDuplicateFiles(disk)
                old_files == FindOldFiles(disk, OldestPercent)
                deduped == RemoveDuplicates(Cleaned(disk, 0, 0), Flatten(duplicates))
                final == IF BelowThreshold(deduped.disk, threshold)
                         THEN Cleaned(deduped.disk, 0, deduped.freed_space)
                         ELSE RemoveOldFiles(Cleaned(deduped.disk, 0, deduped.freed_space),
                                             old_files, threshold)
            IN  /\ disk' = final.disk
                /\ report' = [cleanup_needed |-> TRUE,
                              removed_duplicates |-> deduped.removed,
                              removed_old_files |-> final.removed,
                              freed_space_gb |-> <<final.freed_space, GiB>>,
                              final_usage_percentage |-> UsagePercentage(final.disk)]
    /\ UNCHANGED <<downloader, batch, max_concurrent, semaphore, task, result,
                   returned, active_downloads, download_history, mcp_connected,
                   stats>>
    /\ UNCHANGED beyond_download

NextStorage == \E threshold \in CleanupThresholds : manage_storage(threshold)

SpecStorage == InitStorage /\ [][NextStorage]_vars

(* ------------------------------------------------------------ RateLimiter *)
(* The tasks of a batch call wait() of the downloader's one RateLimiter inside  *)
(* the semaphore and then start their transport.  Of a task only the wait and   *)
(* the transport are kept: every url is new and the store has room.             *)

\* the clock when the batch starts, and the end of the study
Epoch == 3
MaxClock == 8

\* RateLimiter(delay=...)
Delays == {0, 1, 2}

LimiterBatches ==
    { [i \in 1..n |-> Item("u1", TRUE, FALSE)] : n \in 1..3 }

InitLimiter ==
    /\ Constructed(2)
    /\ downloader = "limited"
    /\ batch \in LimiterBatches
    /\ max_concurrent \in 1..MaxConcurrent
    /\ semaphore = max_concurrent
    /\ task = [i \in DOMAIN batch |-> "pending"]
    /\ result = [i \in DOMAIN batch |-> NoResult]
    /\ returned = NoReturn
    /\ active_downloads = {}
    /\ download_history = <<>>
    /\ mcp_connected = FALSE
    /\ stats = NoStats
    /\ disk = <<>>
    /\ report = NoReport
    /\ clock = Epoch
    /\ delay \in Delays
    /\ last_call_time = 0
    /\ wake_at = [i \in DOMAIN batch |-> NoTime]
    /\ fetch_at = [i \in DOMAIN batch |-> NoTime]

\* what the steps of the rate limiter study leave alone
beyond_limiter ==
    <<total_max_connections, agents, agent_keys, connections, active_connections,
      shutdown_flag, now, pc, conn, worker, sweep_time, faults, ev, status, lock,
      shutdown_pc, downloader, batch, max_concurrent, result, returned,
      active_downloads, download_history, mcp_connected, stats, disk, report, delay>>

\* time passes
limiter_tick ==
    /\ downloader = "limited"
    /\ clock < MaxClock
    /\ clock' = clock + 1
    /\ UNCHANGED <<semaphore, task, last_call_time, wake_at, fetch_at>>
    /\ UNCHANGED beyond_limiter

\* time_since_last_call < self.delay
MustWait(current_time) == current_time - last_call_time < delay

\* mutant: the sleep is cut to nothing
WaitTime_None(current_time) == 0

\* wait_time = self.delay - time_since_last_call
WaitTime(current_time) == delay - (current_time - last_call_time)

\* the task of item i gets the semaphore and calls wait(): lines 31-36, and
\* line 38 with the start of the transport when no sleep is needed
wait_call(i) ==
    /\ downloader = "limited"
    /\ task[i] = "pending"
    /\ SemaphoreFree
    /\ semaphore' = semaphore - 1
    /\ IF MustWait(clock)
       THEN /\ task' = [task EXCEPT ![i] = "rate_wait"]
            /\ wake_at' = [wake_at EXCEPT ![i] = Some(clock + WaitTime(clock))]
            /\ UNCHANGED <<last_call_time, fetch_at>>
       ELSE /\ task' = [task EXCEPT ![i] = "fetching"]
            /\ last_call_time' = clock
            /\ fetch_at' = [fetch_at EXCEPT ![i] = Some(clock)]
            /\ UNCHANGED wake_at
    /\ UNCHANGED clock
    /\ UNCHANGED beyond_limiter

\* asyncio.sleep is over, at its time or later: line 38, wait() returns and the
\* transport starts
wait_return(i) ==
    /\ downloader = "limited"
    /\ task[i] = "rate_wait"
    /\ clock >= wake_at[i][1]
    /\ task' = [task EXCEPT ![i] = "fetching"]
    /\ last_call_time' = clock
    /\ fetch_at' = [fetch_at EXCEPT ![i] = Some(clock)]
    /\ UNCHANGED <<clock, semaphore, wake_at>>
    /\ UNCHANGED beyond_limiter

\* the transport of item i ends and its task leaves the semaphore
transport_done(i) ==
    /\ downloader = "limited"
    /\ task[i] = "fetching"
    /\ task' = [task EXCEPT ![i] = "done"]
    /\ semaphore' = semaphore + 1
    /\ UNCHANGED <<clock, last_call_time, wake_at, fetch_at>>
    /\ UNCHANGED beyond_limiter

NextLimiter ==
    \/ limiter_tick
    \/ \E i \in DOMAIN batch : wait_call(i)
    \/ \E i \in DOMAIN batch : wait_return(i)
    \/ \E i \in DOMAIN batch : transport_done(i)

SpecLimiter == InitLimiter /\ [][NextLimiter]_vars

\* registrations with every kind of argument, and sweeps that make room for
\* registering an agent_id again; no connection is opened
NextRegister ==
    \/ Tick
    \/ \E call \in RegisterStudyCalls : register_agent(call)
    \/ cleanup_wake
    \/ \E raising \in Raising(UNION {Range(connections[a]) : a \in IdleAgents(sweep_time)}) :
          cleanup_idle_connections(raising)

SpecRegister == Init /\ [][NextRegister]_vars

\* the callers of the status study: one of a1, one of a2
StatusThreads == {1, 3}

\* an observer calls get_pool_status between the steps of two callers, of the
\* sweep and of registrations
NextStatus ==
    \/ Tick
    \/ \E call \in RegisterCalls : register_agent(call)
    \/ \E t \in StatusThreads : get_connection_enter(t)
    \/ \E t \in StatusThreads, close_ok \in BOOLEAN, connect_ok \in BOOLEAN :
          get_connection_acquire(t, close_ok, connect_ok)
    \/ \E t \in StatusThreads, body_raises \in BOOLEAN, close_ok \in BOOLEAN :
          get_connection_release(t, body_raises, close_ok)
    \/ cleanup_wake
    \/ \E raising \in Raising(UNION {Range(connections[a]) : a \in IdleAgents(sweep_time)}) :
          cleanup_idle_connections(raising)
    \/ get_pool_status

SpecStatus == Init /\ [][NextStatus]_vars

(* ================================================================ claims *)
RECURSIVE SumCounts(_)
\* the sum of connection_count over the agents of s
SumCounts(s) ==
    IF s = {} THEN 0
    ELSE LET a == CHOOSE x \in s : TRUE
         IN agents[a].connection_count + SumCounts(s \ {a})

\* C1: after every step the connection counts of the registered agents add up
\* to _active_connections, which is at most total_max_connections.
\* The code breaks it: a sweep drops an agent whose close() raised without
\* subtracting that connection.
C1_CountersAgree ==
    /\ SumCounts(DOMAIN agents) = active_connections
    /\ active_connections <= total_max_connections

\* C2: every registered agent has 0 <= connection_count <= max_connections.
C2_CountWithinLimit ==
    \A a \in DOMAIN agents :
        /\ 0 <= agents[a].connection_count
        /\ agents[a].connection_count <= agents[a].max_connections

\* an agent at its limit has just been refused one more connection
C2_Witness ==
    /\ ev = "RuntimeError"
    /\ \E t \in Threads :
          /\ pc[t] = "idle"
          /\ AgentOf[t] \in DOMAIN agents
          /\ agents[AgentOf[t]].connection_count = agents[AgentOf[t]].max_connections
          /\ active_connections < total_max_connections

(* ----------------------------------------------------------- preemption *)
\* thread t runs the locked block of get_connection in this step
Decides(t) == pc[t] = "entered" /\ pc'[t] # "entered"

\* agent v may be preempted for requester r: another agent, of strictly lower
\* priority, that holds more than one connection
Preemptable(r, v) ==
    /\ v \in DOMAIN agents
    /\ v # r
    /\ agents[v].priority < agents[r].priority
    /\ agents[v].connection_count > 1

\* agent v loses a tracked handle in this step
LosesHandle(v) ==
    /\ v \in DOMAIN connections
    /\ \/ v \notin DOMAIN connections'
       \/ Range(connections[v]) \ Range(connections'[v]) # {}

\* the requester of t is registered, below its own limit, the pool is at the
\* global cap and some other agent may be preempted
C3_Contended(t) ==
    LET r == AgentOf[t] IN
    /\ r \in DOMAIN agents
    /\ agents[r].connection_count < agents[r].max_connections
    /\ active_connections = total_max_connections
    /\ \E v \in DOMAIN agents : Preemptable(r, v)

\* exactly one connection is closed, the oldest of one preemptable agent, and
\* the requester holds its new connection
C3_OneEvictedAndAcquired(t) ==
    LET r == AgentOf[t] IN
    /\ pc'[t] = "holding"
    /\ connections'[r] = Append(connections[r], conn[t])
    /\ agents'[r].connection_count = agents[r].connection_count + 1
    /\ \E v \in DOMAIN agents :
          /\ Preemptable(r, v)
          /\ connections'[v] = Tail(connections[v])
          /\ agents'[v].connection_count = agents[v].connection_count - 1
          /\ \A w \in DOMAIN agents \ {r, v} :
                /\ connections'[w] = connections[w]
                /\ agents'[w] = agents[w]
    /\ active_connections' = active_connections

C4_VictimIsLowestThenOldest ==
    [][\A t \in AllThreads : \A v \in DOMAIN agents :
          Decides(t) /\ v # AgentOf[t] /\ LosesHandle(v)
              => /\ Preemptable(AgentOf[t], v)
                 /\ \A w \in DOMAIN agents :
                       Preemptable(AgentOf[t], w)
                           => \/ agents[v].priority < agents[w].priority
                              \/ /\ agents[v].priority = agents[w].priority
                                 /\ agents[v].last_activity <= agents[w].last_activity]_vars

\* a2 preempted a3 although a1, of the same priority and registered first, was
\* preemptable too: a3 was idle longer
C4_Witness ==
    /\ pc = [t \in AllThreads |-> "holding"]
    /\ Len(connections["a1"]) = 2
    /\ Len(connections["a3"]) = 1
    /\ Len(connections["a2"]) = 1
    /\ agents["a3"].priority = agents["a1"].priority
    /\ agents["a3"].last_activity < agents["a1"].last_activity

\* C5: a preemption takes a connection only from an agent that holds at least
\* two before the step and at least one after it, and only for a requester of
\* strictly higher priority.
C5_NeverLastConnection ==
    [][\A t \in AllThreads : \A v \in DOMAIN agents :
          Decides(t) /\ v # AgentOf[t] /\ LosesHandle(v)
              => /\ agents[v].connection_count >= 2
                 /\ v \in DOMAIN agents'
                 /\ agents'[v].connection_count >= 1
                 /\ agents'[v].connection_count = agents[v].connection_count - 1
                 /\ agents[AgentOf[t]].priority > agents[v].priority]_vars

\* a preemption for a2 has left a1 with one of its two connections, and a3,
\* which held one connection, has kept it
C5_Witness ==
    /\ pc[1] = "holding" /\ pc[2] = "holding"
    /\ Len(connections["a1"]) = 1
    /\ Len(connections["a3"]) = 1
    /\ Len(connections["a2"]) = 1
    /\ pc[3] = "holding"
    /\ active_connections = total_max_connections

\* no agent other than r may be preempted for r
NoVictimFor(r) == \A v \in DOMAIN agents : ~Preemptable(r, v)

\* C6: at the global cap, with no other agent of strictly lower priority that
\* holds more than one connection, get_connection raises at once and the
\* counts, the handle sets and _active_connections stay as they are.
C6_FailsAtCapWithoutVictim ==
    /\ [][\A t \in AllThreads :
            /\ Decides(t)
            /\ AgentOf[t] \in DOMAIN agents
            /\ active_connections >= total_max_connections
            /\ NoVictimFor(AgentOf[t])
            => /\ pc'[t] = "idle"
               /\ ev' = "RuntimeError"
               /\ UNCHANGED <<agents, agent_keys, connections, active_connections>>]_vars
    /\ [](\A t \in AllThreads :
            pc[t] = "entered" => ENABLED get_connection_acquire(t, TRUE, TRUE))

\* the pool is full, no agent may be preempted for a caller that is below its
\* own limit, and that caller has just been refused
C6_Witness ==
    /\ ev = "RuntimeError"
    /\ active_connections = total_max_connections
    /\ \E t \in AllThreads :
          /\ pc[t] = "idle"
          /\ AgentOf[t] \in DOMAIN agents
          /\ agents[AgentOf[t]].connection_count < agents[AgentOf[t]].max_connections
          /\ NoVictimFor(AgentOf[t])

(* -------------------------------------------------------------- release *)
\* thread t leaves its scope in this step
Leaves(t) == pc[t] = "holding" /\ pc'[t] = "idle"

\* C7 as claimed: leaving the scope of a connection that is still tracked
\* removes it from the agent's handle set and subtracts one from the agent's
\* connection_count and from _active_connections; no pool error reaches the
\* caller, only the exception of the body.  The code breaks it when close()
\* raises: the handle stays tracked and counted.
C7_ReleaseUntracksAndDecrements ==
    [][\A t \in AllThreads :
          Leaves(t) /\ IsTracked(AgentOf[t], conn[t])
              => /\ connections'[AgentOf[t]] = SeqWithout(connections[AgentOf[t]], conn[t])
                 /\ agents'[AgentOf[t]].connection_count
                        = agents[AgentOf[t]].connection_count - 1
                 /\ active_connections' = active_connections - 1
                 /\ ev' \in {"none", "BodyError"}]_vars

(* ---------------------------------------------------------------- sweep *)
\* the locked loop of the sweep runs in this step
Sweeps == worker = "sweeping" /\ worker' # "sweeping"

\* C8: a sweep removes an agent, registration and handle set, if and only if
\* current_time - last_activity > connection_timeout.
C8_SweepRemovesExactlyIdle ==
    [][Sweeps =>
          \A a \in DOMAIN agents :
              (a \notin DOMAIN agents' /\ a \notin DOMAIN connections')
                  <=> sweep_time - agents[a].last_activity > connection_timeout]_vars

\* a sweep has removed a1 while a thread of a1 was inside its scope, and has
\* kept a2, whose last activity lies exactly connection_timeout back
C8_Witness ==
    /\ ~shutdown_flag
    /\ pc[1] = "holding"
    /\ "a1" \notin DOMAIN agents
    /\ "a2" \in DOMAIN agents
    /\ now - agents["a2"].last_activity = connection_timeout
    /\ worker = "sleeping"

(* ------------------------------------------------------- error handling *)
\* C9: get_connection for an agent that is not registered raises, ValueError
\* at the entry test or RuntimeError in the locked block; the caller gets no
\* connection and the pool stays as it is.
C9_UnregisteredRaises ==
    [][/\ ev' = "ValueError" =>
            /\ \E t \in AllThreads : pc[t] = "idle" /\ AgentOf[t] \notin DOMAIN agents
            /\ UNCHANGED <<agents, agent_keys, connections, active_connections, pc>>
       /\ \A t \in AllThreads :
            AgentOf[t] \notin DOMAIN agents =>
               /\ pc[t] = "idle" => pc'[t] = "idle"
               /\ Decides(t) =>
                     /\ pc'[t] = "idle"
                     /\ ev' = "RuntimeError"
                     /\ UNCHANGED <<agents, agent_keys, connections,
                                    active_connections>>]_vars

\* a caller of a1 passed the entry test, a1 was removed, and the locked block
\* refused the caller
C9_Witness ==
    /\ ev = "RuntimeError"
    /\ "a1" \notin DOMAIN agents
    /\ pc[1] = "idle" /\ pc[2] = "idle"
    /\ active_connections = 0

\* C10: register_agent for an agent_id that is registered returns False and
\* leaves the record, the handle set and _active_connections as they are.
C10_DuplicateRegisterKeepsRecord ==
    [][/\ ev' = "False" =>
            UNCHANGED <<agents, agent_keys, connections, active_connections>>
       /\ UNCHANGED <<pc, worker, now, shutdown_flag, faults>> =>
            \A a \in DOMAIN agents \cap DOMAIN agents' :
                /\ agents'[a] = agents[a]
                /\ connections'[a] = connections[a]]_vars

\* a second register_agent for a1, which holds a connection and was registered
\* with max_connections 1, has returned False
C10_Witness ==
    /\ ev = "False"
    /\ "a1" \in DOMAIN agents
    /\ agents["a1"].max_connections = 1
    /\ agents["a1"].connection_count = 1

(* ----------------------------------------------------------- registration *)
\* what the caller of register_agent supplied for an optional argument, or the
\* default of the agent type when the caller left it out
SuppliedOr(opt, agent_type, key, default) ==
    IF opt = NoneArg THEN TypeDefault(agent_type, key, default) ELSE opt[1]

\* C11 as claimed: register_agent of an unregistered agent_id stores the
\* max_connections and the priority the caller supplied, whatever integer they
\* are, 0 included, takes the default of the type (3 and 1 for an unknown type)
\* only for an argument left out, and creates the record with connection_count
\* 0, an empty handle set and last_activity = now.  The code breaks it for a
\* supplied 0, which `or` takes for a missing argument.
C11_StoresSuppliedValues ==
    [][\A call \in RegisterStudyCalls :
          call.agent_id \notin DOMAIN agents /\ register_agent(call)
              => /\ call.agent_id \in DOMAIN agents'
                 /\ agents'[call.agent_id].max_connections
                        = SuppliedOr(call.max_connections, call.agent_type,
                                     "max_connections", 3)
                 /\ agents'[call.agent_id].priority
                        = SuppliedOr(call.priority, call.agent_type, "priority", 1)
                 /\ agents'[call.agent_id].connection_count = 0
                 /\ agents'[call.agent_id].last_activity = now
                 /\ connections'[call.agent_id] = <<>>]_vars

(* --------------------------------------------------------------- shutdown *)
\* this step is a call of shutdown()
ShutsDown == \E raising \in SUBSET AllHandles : shutdown(raising)

\* the pool holds nothing
PoolIsEmpty ==
    agents = <<>> /\ agent_keys = <<>> /\ connections = <<>> /\ active_connections = 0

\* C12: after every shutdown() no agent is registered, no connection is tracked
\* and _active_connections is 0, whatever was held or in flight and whichever
\* close() raised; a shutdown() of a pool that a shutdown() has emptied leaves the
\* pool and the shutdown flag as they are.
C12_ShutdownEmptiesAndIsIdempotent ==
    [][ShutsDown =>
          /\ agents' = <<>> /\ agent_keys' = <<>> /\ connections' = <<>>
          /\ active_connections' = 0
          /\ shutdown_flag'
          /\ (shutdown_flag /\ PoolIsEmpty
                 => UNCHANGED <<pool, shutdown_flag, total_max_connections>>)]_vars

\* shutdown() has run while thread 1 held a connection whose close() raised and
\* while thread 3 was between the entry test and the locked block
C12_Witness ==
    /\ shutdown_flag
    /\ PoolIsEmpty
    /\ pc[1] = "holding"
    /\ pc[3] = "entered"
    /\ faults = 1

(* -------------------------------------------------------- get_pool_status *)
RECURSIVE SumConnections(_)
\* the sum of the "connections" values of the agent entries s of a snapshot
SumConnections(s) ==
    IF DOMAIN s = {} THEN 0
    ELSE LET a == CHOOSE x \in DOMAIN s : TRUE IN
         s[a].connections + SumConnections([x \in DOMAIN s \ {a} |-> s[x]])

\* C13 as claimed: get_pool_status changes nothing of the pool, and in every
\* snapshot it returns total_connections is the sum of the connections values
\* of the agents of that snapshot.  The code breaks the second part after a
\* sweep in which a close() raised: _active_connections stays above the counts.
C13_StatusReadsConsistently ==
    /\ [](status # NoStatus
            => status.total_connections = SumConnections(status.agents))
    /\ [][status' # status
            => UNCHANGED <<total_max_connections, pool, shutdown_flag, pc, conn,
                           worker, sweep_time, faults>>]_vars

(* ============================================================== downloads *)
\* the items whose task holds the semaphore: between the admission and the
\* release, the transport fetch included
Admitted == {i \in DOMAIN task : task[i] \in {"rate_wait", "fetching"}}

\* the items whose transport fetch is in flight
Fetching == {i \in DOMAIN task : task[i] = "fetching"}

\* C14: in a batch download with max_concurrent = k no more than k per-item
\* downloads are inside the semaphore, so no more than k transport fetches are
\* in flight at any time, whatever the length of the list.
C14_AtMostKInFlight ==
    /\ Cardinality(Admitted) <= max_concurrent
    /\ Cardinality(Fetching) <= max_concurrent
    /\ semaphore + Cardinality(Admitted) = max_concurrent

\* two fetches of a list of three are in flight under max_concurrent = 2, and
\* the third item waits for the semaphore
C14_Witness ==
    /\ max_concurrent = 2
    /\ Len(batch) = 3
    /\ Cardinality(Fetching) = 2
    /\ \E i \in DOMAIN task : task[i] = "pending"

\* the result of a download_pdf call or the paper of a download_paper call
\* tells a success
Succeeded(r) ==
    IF "success" \in DOMAIN r THEN r.success ELSE r.pdf_downloaded

\* C15: a batch download returns one result per input item, in input order,
\* none of them an exception: every item was attempted and has its own result,
\* a step of one item changes the result of no other item, and once every task
\* has ended the batch call returns.
C15_OneResultPerItemInOrder ==
    /\ [](returned # NoReturn =>
            /\ DOMAIN returned = DOMAIN batch
            /\ \A i \in DOMAIN batch :
                  /\ task[i] = "done"
                  /\ ~IsRaised(returned[i])
                  /\ returned[i].url = batch[i].url
                  /\ ~IsRaised(result[i]) => returned[i] = result[i]
                  /\ IsRaised(result[i]) => ~Succeeded(returned[i]))
    /\ [](AllDone /\ returned = NoReturn /\ downloader # "none" =>
            ENABLED (download_batch_return \/ download_papers_batch_return))
    /\ [][\A i \in DOMAIN result :
             result'[i] # result[i] /\ result'[i] # NoResult =>
                 \A j \in DOMAIN result \ {i} : result'[j] = result[j]]_vars

\* a batch of three has returned: one item raised an unexpected exception, one
\* failed and one succeeded
C15_Witness ==
    /\ returned # NoReturn
    /\ Len(batch) = 3
    /\ \E i, j, k \in DOMAIN batch :
          /\ IsRaised(result[i])
          /\ ~IsRaised(result[j]) /\ ~Succeeded(returned[j])
          /\ ~IsRaised(result[k]) /\ Succeeded(returned[k])

\* C16: while a download_pdf call for a url is in flight every other call for
\* that url ends at once with the failure "Download already in progress",
\* starts no transport and leaves active_downloads as it is; so no url has two
\* calls in flight.
C16_OneFetchPerUrl ==
    /\ [](downloader = "agent" =>
            \A i, j \in Admitted : batch[i].url = batch[j].url => i = j)
    /\ [][\A i \in DOMAIN task :
             /\ downloader = "agent"
             /\ task[i] = "pending" /\ task'[i] # "pending"
             /\ batch[i].url \in active_downloads
             => /\ task'[i] = "done"
                /\ result'[i] = Failure(batch[i].url, "Download already in progress")
                /\ active_downloads' = active_downloads
                /\ disk' = disk]_vars

\* the second call for u1 was refused while the fetch of the first is in flight
C16_Witness ==
    /\ downloader = "agent"
    /\ Len(batch) = 3
    /\ task[1] = "fetching"
    /\ task[2] = "done"
    /\ result[2] = Failure("u1", "Download already in progress")
    /\ "u1" \in active_downloads

\* the target file of item i exists above the minimal size
TargetAboveMinimum(i) ==
    /\ PathOf(batch[i].url) \in DOMAIN disk
    /\ disk[PathOf(batch[i].url)].size > MinPdfSize

\* C17 as claimed: a download_pdf or download_paper call whose target file
\* exists above the minimal size ends with an already-downloaded success,
\* starts no transport and leaves the file alone, and download_pdf's result
\* carries the checksum of the file.  (Calls for a url in flight and calls in
\* which the stat of the store raises are left out.)  The code breaks it for
\* download_pdf when the store is at 95% of its limit or above.
C17_ExistingFileIsSkipped ==
    [][\A i \in DOMAIN task :
          LET url == batch[i].url
              path == PathOf(url)
          IN
          /\ (/\ downloader = "agent"
              /\ task[i] = "pending" /\ task'[i] # "pending"
              /\ TargetAboveMinimum(i)
              /\ url \notin active_downloads
              /\ ~IsRaised(result'[i])
              => task'[i] = "rate_wait")
          /\ (/\ downloader = "agent"
              /\ task[i] = "rate_wait" /\ task'[i] # "rate_wait"
              /\ TargetAboveMinimum(i)
              => /\ task'[i] = "done"
                 /\ result'[i] = Success(url, path, disk[path])
                 /\ disk' = disk)
          /\ (/\ downloader = "paper"
              /\ task[i] = "pending" /\ task'[i] # "pending"
              /\ TargetAboveMinimum(i)
              /\ batch[i].complete /\ ~batch[i].pdf_downloaded
              => /\ task'[i] = "done"
                 /\ result'[i] = Downloaded(batch[i], path, disk[path].size)
                 /\ disk' = disk)]_vars

\* C18 as claimed: after a fetch, a file this download wrote that is below the
\* minimal size or does not start with the PDF signature is not on disk and
\* the download is reported as failed; a download reported as successful has
\* its file on disk and the file passes both tests.  The code breaks it in
\* _download_fallback and _download_with_mcp, which test nothing, and in
\* _download_file when the transfer raises half way.
C18_InvalidFileIsDeleted ==
    [][\A i \in DOMAIN task :
          LET path == PathOf(batch[i].url) IN
          task[i] = "fetching" /\ task'[i] = "done"
              => /\ Succeeded(result'[i])
                    => path \in DOMAIN disk' /\ ValidatePdfFile(disk'[path])
                 /\ (/\ path \in DOMAIN disk'
                     /\ (path \notin DOMAIN disk \/ disk'[path] # disk[path])
                     => ValidatePdfFile(disk'[path]))]_vars

\* this step is the end of item i's fetch by the response resp
Fetched(i, resp) == download_pdf_fetched(i, resp) \/ download_paper_respond(i, resp)

\* C19 as claimed: a fetch whose expected size (Content-Length) added to the
\* usage of the store exceeds the ceiling ends with a failed result, and the
\* store is as before: no file is created or changed.  The code breaks it in
\* download_pdf, which holds only the usage against 95% of the limit, before
\* the fetch and without the size.
C19_OversizeIsRejectedUnwritten ==
    [][\A i \in DOMAIN task : \A resp \in Responses :
          /\ Fetched(i, resp)
          /\ resp.kind \in {"ok", "broken"}
          /\ resp.length # NoneArg
          /\ Usage(disk) + resp.length[1]
                > (IF downloader = "agent" THEN storage_limit ELSE max_storage_bytes)
          => /\ ~Succeeded(result'[i])
             /\ disk' = disk]_vars

(* ================================================================ cleanup *)
\* this step is a manage_storage call that performs its cleanup on a store
\* with fewer checksums than files
CleansDuplicates(threshold) ==
    /\ manage_storage(threshold)
    /\ ~BelowThreshold(disk, threshold)
    /\ Cardinality({disk[p].digest : p \in DOMAIN disk}) < Cardinality(DOMAIN disk)

\* the first listed file of every checksum group of d
FirstOfEachGroup(d) ==
    {p \in DOMAIN d : \A q \in ChecksumGroup(d, p) : p <= q}

\* the bytes the report says were freed
FreedBytes(r) ==
    IF r.freed_space_gb[2] = GiB THEN r.freed_space_gb[1] ELSE -1

C30_SweepSurvivesCloseError ==
    /\ [][Sweeps /\ faults' > faults
            => /\ DOMAIN agents' = DOMAIN agents \ IdleAgents(sweep_time)
               /\ DOMAIN connections' = DOMAIN connections \ IdleAgents(sweep_time)
               /\ \A a \in DOMAIN agents' : agents'[a] = agents[a]
               /\ worker' = IF shutdown_flag THEN "exited" ELSE "sleeping"]_vars
    /\ [](worker = "exited" => shutdown_flag)

\* two agents with a connection each were reclaimed while their callers were
\* still in their scopes, one close() raised, and the worker sleeps again
C30_Witness ==
    /\ pc[1] = "holding" /\ pc[3] = "holding"
    /\ agents = <<>>
    /\ active_connections = 1
    /\ faults = 1
    /\ ~shutdown_flag
    /\ worker = "sleeping"

(* ========================================================== paper records *)
\* pdf_downloaded implies that pdf_file_path and pdf_file_size are set
HasPathAndSize(paper) ==
    paper.pdf_downloaded =>
        paper.pdf_file_path # NoneArg /\ paper.pdf_file_size # NoneArg

\* the three download fields of the two records are the same
SameDownloadFields(p, q) ==
    /\ p.pdf_downloaded = q.pdf_downloaded
    /\ p.pdf_file_path = q.pdf_file_path
    /\ p.pdf_file_size = q.pdf_file_size

\* C22: a download_paper call on a record in which pdf_downloaded implies a
\* path and a size returns a record of which that is true again, also when
\* the record comes from an earlier call; a call whose _download_file fails
\* returns the record with its three download fields as they were, and so
\* does the batch for a call that raised.
C22_DownloadedHasPathAndSize ==
    /\ [][\A i \in DOMAIN result :
             /\ downloader = "paper"
             /\ result[i] = NoResult /\ result'[i] # NoResult
             /\ ~IsRaised(result'[i])
             => /\ HasPathAndSize(batch[i]) => HasPathAndSize(result'[i])
                /\ \A resp \in Responses :
                      /\ download_paper_respond(i, resp)
                      /\ ~DownloadFile(PathOf(batch[i].url), resp).success
                      => SameDownloadFields(result'[i], batch[i])]_vars
    /\ [](downloader = "paper" /\ returned # NoReturn =>
            \A i \in DOMAIN batch :
                /\ HasPathAndSize(batch[i]) => HasPathAndSize(returned[i])
                /\ IsRaised(result[i]) => returned[i] = batch[i])

\* a second batch over the records of a first: one record was downloaded in
\* the first and comes back as it went in, one failed in the first and is
\* downloaded now
C22_Witness ==
    /\ downloader = "paper"
    /\ returned # NoReturn
    /\ stats.failed >= 1
    /\ \E i, j \in DOMAIN batch :
          /\ batch[i].pdf_downloaded /\ batch[i].pdf_file_size = Some(1500)
          /\ returned[i] = batch[i]
          /\ ~batch[j].pdf_downloaded
          /\ returned[j].pdf_downloaded
          /\ returned[j].pdf_file_path = Some(PathOf(batch[j].url))
          /\ returned[j].pdf_file_size = Some(1500)

(* ============================================================ failed files *)
\* C25 as claimed: after a fetch that is reported as failed, whatever the
\* cause, the target path holds no file this download wrote: it is absent or
\* holds what it held before.  The code breaks it when the transfer raises in
\* the middle of the body, in _download_file as in _download_fallback.
C25_FailureLeavesNoPartialFile ==
    [][\A i \in DOMAIN task :
          LET path == PathOf(batch[i].url) IN
          /\ task[i] = "fetching" /\ task'[i] = "done"
          /\ ~Succeeded(result'[i])
          => \/ path \notin DOMAIN disk'
             \/ path \in DOMAIN disk /\ disk'[path] = disk[path]]_vars

\* C26 as claimed: from a store within the ceiling no step of a download
\* leads to a store above it, for every number of concurrent downloads and
\* with or without a Content-Length.  The code breaks it in download_pdf,
\* which tests the usage only before the fetch and against 95% of the limit.
C26_UsageStaysWithinCeiling ==
    [][LET ceiling == IF downloader = "agent" THEN storage_limit
                      ELSE max_storage_bytes
       IN  (downloader \in {"agent", "paper"} /\ Usage(disk) <= ceiling)
              => (Usage(disk') <= ceiling)]_vars

(* ============================================================ local paths *)
\* C28 as claimed: two download_pdf calls in flight for two different urls
\* have two different local paths.  The code breaks it for two urls with the
\* same last segment.
C28_DistinctUrlsDistinctPaths ==
    downloader = "agent" =>
        \A i, j \in Admitted :
            batch[i].url # batch[j].url => PathOf(batch[i].url) # PathOf(batch[j].url)

(* ============================================================== old files *)
\* C27: in a cleanup, the old files that manage_storage deletes after the
\* duplicates are the oldest of what the duplicate removal left (no file that
\* is left at the end and could be unlinked is older than a deleted one), the
\* usage was at or above the threshold before each of these deletions, and
\* none happens when the usage after the duplicate removal is below the
\* threshold.  What the duplicate loop leaves is the first file of each
\* checksum group and the duplicates whose unlink raised.
C27_OldestFirstUntilBelow ==
    [][\A threshold \in CleanupThresholds :
          manage_storage(threshold) /\ ~BelowThreshold(disk, threshold)
          => LET left == [p \in {q \in DOMAIN disk : \/ q \in FirstOfEachGroup(disk)
                                                     \/ ~disk[q].removable}
                             |-> disk[p]]
                 deleted == DOMAIN left \ DOMAIN disk'
             IN  /\ DOMAIN disk' \subseteq DOMAIN left
                 /\ report'.removed_old_files = Cardinality(deleted)
                 /\ BelowThreshold(left, threshold) => deleted = {}
                 /\ \A x \in deleted : \A r \in DOMAIN disk' :
                       left[r].mtime < left[x].mtime => ~left[r].removable
                 /\ \A x \in deleted :
                       ~BelowThreshold(
                           [p \in DOMAIN disk' \cup
                                  {y \in deleted : left[y].mtime >= left[x].mtime}
                              |-> left[p]], threshold)
                 /\ deleted # {} =>
                       \E x \in deleted :
                           ~BelowThreshold(Written(disk', x, left[x]), threshold)]_vars

\* a cleanup removed duplicates and then two old files
C27_Witness ==
    /\ downloader = "storage"
    /\ report # NoReport
    /\ report.cleanup_needed
    /\ report.removed_duplicates >= 1
    /\ report.removed_old_files = 2

(* =========================================================== rate limiter *)
\* the tasks whose wait() has returned
Waited == {i \in DOMAIN fetch_at : fetch_at[i] # NoTime}

\* the returns of wait() of tasks i and j are at least delay apart
Spaced(i, j) ==
    \/ fetch_at[i][1] - fetch_at[j][1] >= delay
    \/ fetch_at[j][1] - fetch_at[i][1] >= delay

\* C21: with one caller at a time (max_concurrent = 1) every two returns of
\* wait() are at least delay apart, each return sets last_call_time to the time
\* of the return, and the first wait() of a fresh limiter does not sleep.
C21_SequentialWaitsAreSpaced ==
    /\ [](max_concurrent = 1 =>
            \A i, j \in Waited : i # j => Spaced(i, j))
    /\ [][max_concurrent = 1 =>
            \A i \in DOMAIN fetch_at :
                fetch_at[i] = NoTime /\ fetch_at'[i] # NoTime
                    => fetch_at'[i] = Some(clock') /\ last_call_time' = clock']_vars
    /\ [][max_concurrent = 1 /\ Waited = {} /\ downloader = "limited" =>
            \A i \in DOMAIN task :
                task[i] = "pending" /\ task'[i] # "pending" => task'[i] = "fetching"]_vars

\* three waits in a row with delay 2: the first at once, the others exactly
\* one delay after the one before
C21_Witness ==
    /\ downloader = "limited"
    /\ max_concurrent = 1
    /\ delay = 2
    /\ Len(batch) = 3
    /\ \E i, j, k \in Waited :
          /\ fetch_at[i] = Some(Epoch)
          /\ fetch_at[j] = Some(Epoch + delay)
          /\ fetch_at[k] = Some(Epoch + 2 * delay)

\* C29 as claimed: in a batch, whatever max_concurrent, every two transports
\* start at least delay apart.  The code breaks it when two tasks are inside
\* wait() at once: both read the same last_call_time and wake together.
C29_ConcurrentFetchesAreSpaced ==
    \A i, j \in Waited : i # j => Spaced(i, j)

\* C24: once shutdown() has returned the cleanup worker begins no further
\* sweep, and no sweep that ends after the return removes an agent.
C24_NoSweepAfterShutdown ==
    [][shutdown_pc = "returned" =>
          /\ ~(worker = "sleeping" /\ worker' = "sweeping")
          /\ (worker = "sweeping" /\ worker' # "sweeping" =>
                 DOMAIN agents' = DOMAIN agents)]_vars

\* C23: every change of the pool's maps and counters is made by the holder of
\* the lock (a caller of get_connection between taking the lock and giving it
\* up, or register_agent or the sweep, each one whole locked block), and no
\* thread holds the lock while its connect() or close() runs.
C23_LockGuardsStateNotBackendCalls ==
    [][/\ pool' # pool =>
             \/ lock # NoThread
             \/ \E call \in RegisterCalls : register_agent(call)
             \/ \E raising \in SUBSET AllHandles : cleanup_idle_connections(raising)
       /\ \A t \in Threads : pc[t] \in {"connecting", "closing"} => lock # t]_vars

C32_ClosedConnectionCountedOnce ==
    [][LET left == AllHandles \ AllHandles'
           entered == AllHandles' \ AllHandles
           Of(a, handles) == Cardinality({h \in handles : h[1] = a})
       IN  /\ \A t \in Threads, body_raises \in BOOLEAN, close_ok \in BOOLEAN :
                 /\ get_connection_release(t, body_raises, close_ok)
                 /\ ~IsTracked(AgentOf[t], conn[t])
                 => pool' = pool
           /\ active_connections' =
                 active_connections - Cardinality(left) + Cardinality(entered)
           /\ \A a \in DOMAIN agents \cap DOMAIN agents' :
                 agents'[a].connection_count =
                    agents[a].connection_count - Of(a, left) + Of(a, entered)]_vars

(* ========================================================== last_activity *)
\* C33: last_activity of a registered agent changes only in a step in which
\* one of its callers acquires a connection, and is then the time of that
\* step, and a newly registered agent has the time of its registration; no
\* release and no preemption writes it.  A sweep removes every agent whose
\* last_activity is more than connection_timeout before the sweep's time, with
\* its whole handle set, also when one of its callers is still inside its
\* scope with a tracked connection.
C33_SweepIgnoresOpenScopes ==
    [][/\ \A a \in DOMAIN agents \cap DOMAIN agents' :
             agents'[a].last_activity # agents[a].last_activity
             => /\ \E t \in Threads :
                      AgentOf[t] = a /\ pc[t] = "entered" /\ pc'[t] = "holding"
                /\ agents'[a].last_activity = now
       /\ \A a \in DOMAIN agents' \ DOMAIN agents :
             agents'[a].last_activity = now
       /\ worker = "sweeping" /\ worker' # "sweeping"
             => \A a \in DOMAIN agents :
                   sweep_time - agents[a].last_activity > connection_timeout
                   => a \notin DOMAIN agents' /\ a \notin DOMAIN connections']_vars

\* a sweep has removed an agent while one of its callers is inside its scope
C33_Witness ==
    /\ ~shutdown_flag
    /\ worker = "sleeping"
    /\ \E t \in Threads :
          /\ pc[t] = "holding"
          /\ AgentOf[t] \notin DOMAIN agents
          /\ conn[t] \notin AllHandles

C35_OwnLimitBeforePreemption ==
    [][\A t \in AllThreads :
          /\ Decides(t)
          /\ AgentOf[t] \in DOMAIN agents
          /\ agents[AgentOf[t]].connection_count >= agents[AgentOf[t]].max_connections
          => /\ pc'[t] = "idle"
             /\ ev' = "RuntimeError"
             /\ UNCHANGED <<agents, agent_keys, connections, active_connections>>]_vars

\* the pool is full, a caller whose agent is at its own limit has just been
\* refused, and an agent of lower priority with two connections has kept both
C35_Witness ==
    /\ ev = "RuntimeError"
    /\ active_connections >= total_max_connections
    /\ \E t \in AllThreads :
          /\ pc[t] = "idle"
          /\ AgentOf[t] \in DOMAIN agents
          /\ agents[AgentOf[t]].connection_count >= agents[AgentOf[t]].max_connections
          /\ \E v \in DOMAIN agents : Preemptable(AgentOf[t], v)

(* ================================================ a close() that raises *)
\* C36: a sweep removes the record and the whole handle set of every idle
\* agent also when a close() raises, and subtracts from _active_connections
\* the number of closes that returned; once _active_connections is above the
\* sum of the connection counts of the registered agents it stays above it in
\* every step but shutdown, which sets it to 0 with no agent registered.
C36_FailedCloseLeavesCount ==
    [][/\ worker = "sweeping" /\ worker' # "sweeping"
             => LET idle == {a \in DOMAIN agents :
                                sweep_time - agents[a].last_activity > connection_timeout}
                    handles == UNION {Range(connections[a]) : a \in idle}
                IN  /\ DOMAIN agents' = DOMAIN agents \ idle
                    /\ DOMAIN connections' = DOMAIN connections \ idle
                    /\ active_connections' =
                          active_connections - (Cardinality(handles) - (faults' - faults))
                    /\ faults' > faults =>
                          active_connections' > SumCounts(DOMAIN agents)'
       /\ active_connections > SumCounts(DOMAIN agents)
             => \/ active_connections' > SumCounts(DOMAIN agents)'
                \/ /\ \E raising \in SUBSET AllHandles : shutdown(raising)
                   /\ active_connections' = 0
                   /\ agents' = <<>>]_vars

\* a close() raised in a sweep, and later an agent has acquired a connection:
\* _active_connections is 2 with one connection counted
C36_Witness ==
    /\ ~shutdown_flag
    /\ faults > 0
    /\ SumCounts(DOMAIN agents) > 0
    /\ AllHandles # {}
    /\ active_connections > SumCounts(DOMAIN agents)
    /\ active_connections > Cardinality(AllHandles)

C38_ExistingFileAcceptedUnvalidated ==
    [][\A i \in DOMAIN task :
          /\ downloader = "paper"
          /\ task[i] = "pending" /\ task'[i] # "pending"
          /\ batch[i].complete /\ ~batch[i].pdf_downloaded
          /\ PathOf(batch[i].url) \in DOMAIN disk
          /\ disk[PathOf(batch[i].url)].size > 1000
          => /\ task'[i] = "done"
             /\ result'[i].pdf_downloaded
             /\ result'[i].pdf_file_path = Some(PathOf(batch[i].url))
             /\ result'[i].pdf_file_size = Some(disk[PathOf(batch[i].url)].size)
             /\ disk' = disk]_vars

\* no fetch of this PDFDownloader has succeeded, a transfer that broke half
\* way left more than 1000 bytes at the target path, and a later call for the
\* same paper has marked it as downloaded
C38_Witness ==
    /\ downloader = "paper"
    /\ stats.successful = 0
    /\ \E i \in DOMAIN result :
          /\ result[i] # NoResult
          /\ ~IsRaised(result[i])
          /\ ~batch[i].pdf_downloaded
          /\ result[i].pdf_downloaded
          /\ PathOf(batch[i].url) \in DOMAIN disk
          /\ disk[PathOf(batch[i].url)].digest > 10
          /\ result[i].pdf_file_size = Some(disk[PathOf(batch[i].url)].size)

====
